---- MODULE Spec2Model ----
(***************************************************************************)
(* Command-hierarchy reconstruction and column splitting of the roster     *)
(* sheets: buildCommandHierarchy, sortCommandGroups, splitGroupIntoColumns *)
(* and splitLargeGroups of rosterUtils, and the ArmySection pipeline of    *)
(* RosterSheet.tsx that chains them.  Line numbers in the comments are     *)
(* lines of src/unnamed/part_021, the rosterUtils source with the cavalry  *)
(* rule and the sorter.                                                    *)
(*                                                                         *)
(* Strings the code inspects character by character (command codes,        *)
(* names, display names) are sequences of one-character strings.  Values   *)
(* the code only compares for equality (type, size) are TLA+ strings.      *)
(* An optional value (leader: Unit | null, columnIndex?: number) is a      *)
(* sequence of length 0 (null / undefined) or 1.                           *)
(*                                                                         *)
(* `call` holds the locals of a splitLargeGroups call that is followed one *)
(* loop iteration at a time; it is <<>> where the call is taken as one     *)
(* step.  `footnotes` and `fatigue` are the footnote table given to         *)
(* getStartingFatigue and the value it returned; they are <<>> in the       *)
(* specifications of the hierarchy.  `codes` are command codes given to     *)
(* isSubordinateCommand two by two and `subordinate` the results.           *)
(***************************************************************************)
EXTENDS Integers, Sequences, FiniteSets, TLC

VARIABLES units, groups, hierarchy, maxUnitsPerColumn, splitGroups, pc, call,
          footnotes, fatigue, codes, subordinate

vars == <<units, groups, hierarchy, maxUnitsPerColumn, splitGroups, pc, call,
          footnotes, fatigue, codes, subordinate>>

-----------------------------------------------------------------------------
(* Generic helpers *)

None == <<>>

Some(x) == <<x>>

\* Array.prototype.slice(start, end) with 0-based start, exclusive end.
Slice(s, startIdx, endIdx) ==
  [i \in 1..(IF endIdx > startIdx THEN endIdx - startIdx ELSE 0) |-> s[startIdx + i]]

\* Math.ceil(a / b) for a >= 0, b >= 1.
Ceil(a, b) == (a + b - 1) \div b

\* Math.min
Min(a, b) == IF a <= b THEN a ELSE b

RECURSIVE Flatten(_)
\* Concatenation of a sequence of sequences (push(...xs) in a loop).
Flatten(ss) == IF ss = <<>> THEN <<>> ELSE Head(ss) \o Flatten(Tail(ss))

-----------------------------------------------------------------------------
(* Strings *)

\* String.prototype.includes: needle occurs in hay as a contiguous substring.
Includes(hay, needle) ==
  \E off \in 0..(Len(hay) - Len(needle)) :
    \A i \in 1..Len(needle) : hay[off + i] = needle[i]

\* String.prototype.endsWith
EndsWith(hay, needle) ==
  /\ Len(needle) <= Len(hay)
  /\ \A i \in 1..Len(needle) : hay[Len(hay) - Len(needle) + i] = needle[i]

\* Collation order of the letters used in leader names.
Letters == <<"A", "B", "C", "D", "E", "F", "G", "H", "I", "J", "K", "L", "M">>

LetterRank(c) == CHOOSE i \in 1..Len(Letters) : Letters[i] = c

RECURSIVE localeCompare(_, _)
\* a.localeCompare(b) for names written in capital letters: negative, zero
\* or positive as a sorts before, with or after b.
localeCompare(a, b) ==
  IF a = <<>> /\ b = <<>> THEN 0
  ELSE IF a = <<>> THEN -1
  ELSE IF b = <<>> THEN 1
  ELSE IF Head(a) # Head(b) THEN LetterRank(Head(a)) - LetterRank(Head(b))
  ELSE localeCompare(Tail(a), Tail(b))

\* The "none" sentinels of a command code: "-" and the em-dash.
Hyphen == <<"-">>

\* The em-dash character U+2014 is written "EMDASH": one character.
EmDash == <<"EMDASH">>

IsNoneCode(cmd) == cmd = Hyphen \/ cmd = EmDash

-----------------------------------------------------------------------------
(* Insertion-ordered string-keyed objects (Record<string, T>) as sequences  *)
(* of [k, v] entries; Object.entries order is insertion order for the      *)
(* non-numeric keys used here.                                              *)

HasKey(m, k) == \E i \in 1..Len(m) : m[i].k = k

Get(m, k) == m[CHOOSE i \in 1..Len(m) : m[i].k = k].v

\* m[k] = v: replaces the value in place, or appends a new key.
Put(m, k, v) ==
  IF HasKey(m, k)
  THEN [i \in 1..Len(m) |-> IF m[i].k = k THEN [k |-> k, v |-> v] ELSE m[i]]
  ELSE Append(m, [k |-> k, v |-> v])

\* m[k] || [] for a map of lists.
GetOrEmpty(m, k) == IF HasKey(m, k) THEN Get(m, k) ELSE <<>>

-----------------------------------------------------------------------------
(* rosterUtils.ts *)

\* isSubordinateCommand with the endsWith disjunct alone.
isSubordinateCommandAtEnd(childCmd, parentCmd) ==
  EndsWith(childCmd, Hyphen \o parentCmd)

\* isSubordinateCommand(childCmd, parentCmd)
isSubordinateCommand(childCmd, parentCmd) ==
  \/ Includes(childCmd, Hyphen \o parentCmd)
  \/ EndsWith(childCmd, Hyphen \o parentCmd)

RECURSIVE LeaderByCommand(_)
\* leaderByCommand after the loop over `leaders` (lines 51-56).
LeaderByCommand(leaders) ==
  IF leaders = <<>> THEN <<>>
  ELSE LET n == Len(leaders)
           rest == LeaderByCommand(SubSeq(leaders, 1, n - 1))
           leader == leaders[n]
       IN IF ~IsNoneCode(leader.command)
          THEN Put(rest, leader.command, leader)
          ELSE rest

RECURSIVE UnitsByCommand(_)
\* unitsByCommand after the loop over `combatUnits` (lines 59-66).
UnitsByCommand(combatUnits) ==
  IF combatUnits = <<>> THEN <<>>
  ELSE LET n == Len(combatUnits)
           rest == UnitsByCommand(SubSeq(combatUnits, 1, n - 1))
           unit == combatUnits[n]
           cmd == IF unit.command # <<>> THEN unit.command ELSE Hyphen
       IN Put(rest, cmd, Append(GetOrEmpty(rest, cmd), unit))

\* sizePriority[size] ?? 5
SizePriority(size) ==
  CASE size = "Army" -> 0
    [] size = "District" -> 1
    [] size = "Corps" -> 2
    [] size = "Div" -> 3
    [] size = "Brig" -> 4
    [] OTHER -> 5

\* The comparator of the leader sort (lines 69-81).
LeaderCompare(a, b) ==
  IF SizePriority(a.size) # SizePriority(b.size)
  THEN SizePriority(a.size) - SizePriority(b.size)
  ELSE localeCompare(a.name, b.name)

\* Stable insertion of x into the sorted sequence s under LeaderCompare:
\* after the last element that does not sort after x.
InsertLeader(s, x) ==
  LET after == {i \in 1..Len(s) : LeaderCompare(s[i], x) <= 0}
      pos == IF after = {} THEN 0 ELSE CHOOSE i \in after : \A j \in after : j <= i
  IN SubSeq(s, 1, pos) \o <<x>> \o SubSeq(s, pos + 1, Len(s))

RECURSIVE SortLeaders(_)
\* [...leaders].sort(comparator): Array.prototype.sort is stable.
SortLeaders(leaders) ==
  IF leaders = <<>> THEN <<>>
  ELSE InsertLeader(SortLeaders(SubSeq(leaders, 1, Len(leaders) - 1)),
                    leaders[Len(leaders)])

\* A CommandGroup object literal (lines 151-159, 166-173, 199-206, 215-222);
\* columnIndex and totalColumns are absent until the splitter sets them.
CommandGroup(leader, commandCode, displayName, size, us, subgroups, parentCommand) ==
  [leader |-> leader, commandCode |-> commandCode, displayName |-> displayName,
   size |-> size, units |-> us, subgroups |-> subgroups,
   parentCommand |-> parentCommand, columnIndex |-> None, totalColumns |-> None]

\* `${cmd} <em-dash> ${leader.name}`
LeaderDisplayName(cmd, leader) == cmd \o <<" ">> \o EmDash \o <<" ">> \o leader.name

\* The command code "Cav" of the cavalry corps (line 101).
CavCode == <<"C", "a", "v">>

RECURSIVE TextualDivToCorps(_, _, _)
\* divToCorps after the first k steps of the nested loop of lines 88-97
\* (corps leaders outside, div leaders inside, both in sorted order).
TextualDivToCorps(corpsLeaders, divLeaders, k) ==
  IF k = 0 THEN <<>>
  ELSE LET rest == TextualDivToCorps(corpsLeaders, divLeaders, k - 1)
           corpsCmd == corpsLeaders[((k - 1) \div Len(divLeaders)) + 1].command
           divCmd == divLeaders[((k - 1) % Len(divLeaders)) + 1].command
       IN IF isSubordinateCommand(divCmd, corpsCmd)
          THEN Put(rest, divCmd, corpsCmd)
          ELSE rest

\* if (divToCorps[divCmd]): the entry exists and is not the empty string.
IsMapped(divToCorps, divCmd) == HasKey(divToCorps, divCmd) /\ Get(divToCorps, divCmd) # <<>>

RECURSIVE CavalryDivToCorps(_, _, _, _)
\* divToCorps after the first k div leaders of the loop of lines 103-113.
CavalryDivToCorps(divToCorps, divLeaders, unitsByCommand, k) ==
  IF k = 0 THEN divToCorps
  ELSE LET rest == CavalryDivToCorps(divToCorps, divLeaders, unitsByCommand, k - 1)
           divCmd == divLeaders[k].command
           divUnits == GetOrEmpty(unitsByCommand, divCmd)
           hasCavUnits == \E i \in 1..Len(divUnits) : divUnits[i].type = "Cav"
       IN IF IsMapped(rest, divCmd) THEN rest
          ELSE IF hasCavUnits THEN Put(rest, divCmd, CavCode)
          ELSE rest

\* divToCorps as built by lines 88-114.
DivToCorps(corpsLeaders, divLeaders, unitsByCommand) ==
  LET textual == TextualDivToCorps(corpsLeaders, divLeaders,
                                   Len(corpsLeaders) * Len(divLeaders))
      hasCavCorps == \E i \in 1..Len(corpsLeaders) : corpsLeaders[i].command = CavCode
  IN IF hasCavCorps
     THEN CavalryDivToCorps(textual, divLeaders, unitsByCommand, Len(divLeaders))
     ELSE textual

RECURSIVE DivSubgroupsNoParent(_, _, _, _, _)
\* DivSubgroups leaving parentCommand out of the subgroups.
DivSubgroupsNoParent(subordinateDivCmds, cmd, leaderByCommand, unitsByCommand, k) ==
  IF k = 0 THEN [subgroups |-> <<>>, processed |-> {}]
  ELSE LET rest == DivSubgroupsNoParent(subordinateDivCmds, cmd, leaderByCommand,
                                        unitsByCommand, k - 1)
           divCmd == subordinateDivCmds[k]
       IN IF ~HasKey(leaderByCommand, divCmd) THEN rest
          ELSE LET divLeader == Get(leaderByCommand, divCmd)
                   divUnits == GetOrEmpty(unitsByCommand, divCmd)
               IN [subgroups |->
                     Append(rest.subgroups,
                            CommandGroup(Some(divLeader), divCmd,
                                         LeaderDisplayName(divCmd, divLeader),
                                         divLeader.size, divUnits, <<>>, None)),
                   processed |-> rest.processed \cup {divCmd}]

RECURSIVE DivSubgroups(_, _, _, _, _)
\* The loop of lines 143-161 over the first k entries of subordinateDivCmds:
\* the subgroups pushed and the command codes marked processed.
DivSubgroups(subordinateDivCmds, cmd, leaderByCommand, unitsByCommand, k) ==
  IF k = 0 THEN [subgroups |-> <<>>, processed |-> {}]
  ELSE LET rest == DivSubgroups(subordinateDivCmds, cmd, leaderByCommand,
                                unitsByCommand, k - 1)
           divCmd == subordinateDivCmds[k]
       IN IF ~HasKey(leaderByCommand, divCmd) THEN rest
          ELSE LET divLeader == Get(leaderByCommand, divCmd)
                   divUnits == GetOrEmpty(unitsByCommand, divCmd)
               IN [subgroups |->
                     Append(rest.subgroups,
                            CommandGroup(Some(divLeader), divCmd,
                                         LeaderDisplayName(divCmd, divLeader),
                                         divLeader.size, divUnits, <<>>, Some(cmd))),
                   processed |-> rest.processed \cup {divCmd}]

RECURSIVE SubordinateUnitsAnyCode(_, _, _, _)
\* SubordinateUnits merging the codes that have a leader of their own as well.
SubordinateUnitsAnyCode(cmd, leaderByCommand, unitsByCommand, k) ==
  IF k = 0 THEN [units |-> <<>>, processed |-> {}]
  ELSE LET rest == SubordinateUnitsAnyCode(cmd, leaderByCommand, unitsByCommand, k - 1)
           otherCmd == unitsByCommand[k].k
           otherUnits == unitsByCommand[k].v
       IN IF isSubordinateCommand(otherCmd, cmd)
          THEN [units |-> rest.units \o otherUnits,
                processed |-> rest.processed \cup {otherCmd}]
          ELSE rest

RECURSIVE SubordinateUnits(_, _, _, _)
\* The loop of lines 186-195 over the first k entries of unitsByCommand:
\* the units merged into the group and the command codes marked processed.
SubordinateUnits(cmd, leaderByCommand, unitsByCommand, k) ==
  IF k = 0 THEN [units |-> <<>>, processed |-> {}]
  ELSE LET rest == SubordinateUnits(cmd, leaderByCommand, unitsByCommand, k - 1)
           otherCmd == unitsByCommand[k].k
           otherUnits == unitsByCommand[k].v
           hasOwnLeader == HasKey(leaderByCommand, otherCmd)
       IN IF isSubordinateCommand(otherCmd, cmd) /\ ~hasOwnLeader
          THEN [units |-> rest.units \o otherUnits,
                processed |-> rest.processed \cup {otherCmd}]
          ELSE rest

\* One iteration of the loop of lines 120-208: st is [groups, processed].
ProcessLeader(st, leader, leaderByCommand, unitsByCommand, divToCorps) ==
  LET cmd == leader.command
      processed1 == st.processed \cup {cmd}
      subordinateDivCmds ==
        LET mine == SelectSeq(divToCorps, LAMBDA e : e.v = cmd)
        IN [i \in 1..Len(mine) |-> mine[i].k]
      divs == DivSubgroups(subordinateDivCmds, cmd, leaderByCommand, unitsByCommand,
                           Len(subordinateDivCmds))
      corpsDirectUnits == GetOrEmpty(unitsByCommand, cmd)
      directUnits == GetOrEmpty(unitsByCommand, cmd)
      sub == SubordinateUnits(cmd, leaderByCommand, unitsByCommand, Len(unitsByCommand))
      allUnits == directUnits \o sub.units
  IN IF IsNoneCode(cmd) THEN st
     ELSE IF leader.size = "Army" \/ leader.size = "District" THEN st
     ELSE IF cmd \in st.processed THEN st
     ELSE IF leader.size = "Corps" /\ Len(subordinateDivCmds) > 0
       THEN [groups |-> Append(st.groups,
                               CommandGroup(Some(leader), cmd,
                                            LeaderDisplayName(cmd, leader), leader.size,
                                            corpsDirectUnits, divs.subgroups, None)),
             processed |-> processed1 \cup divs.processed]
     ELSE IF leader.size = "Div" /\ IsMapped(divToCorps, cmd)
       THEN [groups |-> st.groups, processed |-> processed1]
     ELSE [groups |-> IF Len(allUnits) > 0
                      THEN Append(st.groups,
                                  CommandGroup(Some(leader), cmd,
                                               LeaderDisplayName(cmd, leader),
                                               leader.size, allUnits, <<>>, None))
                      ELSE st.groups,
           processed |-> processed1 \cup sub.processed]

RECURSIVE ProcessLeaders(_, _, _, _, _)
\* groups and processedCommands after the first k sorted leaders (lines 117-208).
ProcessLeaders(sortedLeaders, leaderByCommand, unitsByCommand, divToCorps, k) ==
  IF k = 0 THEN [groups |-> <<>>, processed |-> {}]
  ELSE ProcessLeader(ProcessLeaders(sortedLeaders, leaderByCommand, unitsByCommand,
                                    divToCorps, k - 1),
                     sortedLeaders[k], leaderByCommand, unitsByCommand, divToCorps)

RECURSIVE LeaderlessGroupsRawName(_, _, _)
\* LeaderlessGroups labelling every group with its raw command code.
LeaderlessGroupsRawName(unitsByCommand, processed, k) ==
  IF k = 0 THEN <<>>
  ELSE LET rest == LeaderlessGroupsRawName(unitsByCommand, processed, k - 1)
           cmd == unitsByCommand[k].k
           cmdUnits == unitsByCommand[k].v
       IN IF cmd \in processed THEN rest
          ELSE IF Len(cmdUnits) = 0 THEN rest
          ELSE Append(rest, CommandGroup(None, cmd, cmd, "", cmdUnits, <<>>, None))

RECURSIVE LeaderlessGroups(_, _, _)
\* The groups pushed by the first k iterations of the loop of lines 211-223.
LeaderlessGroups(unitsByCommand, processed, k) ==
  IF k = 0 THEN <<>>
  ELSE LET rest == LeaderlessGroups(unitsByCommand, processed, k - 1)
           cmd == unitsByCommand[k].k
           cmdUnits == unitsByCommand[k].v
       IN IF cmd \in processed THEN rest
          ELSE IF Len(cmdUnits) = 0 THEN rest
          ELSE Append(rest,
                      CommandGroup(None, cmd,
                                   IF IsNoneCode(cmd)
                                   THEN <<"I","n","d","e","p","e","n","d","e","n","t">>
                                   ELSE cmd,
                                   "", cmdUnits, <<>>, None))

\* The local `groups` of buildCommandHierarchy just before it is sorted
\* (lines 47-223).
BuildGroups(us) ==
  LET leaders == SelectSeq(us, LAMBDA u : u.type = "Ldr")
      combatUnits == SelectSeq(us, LAMBDA u : u.type # "Ldr")
      leaderByCommand == LeaderByCommand(leaders)
      unitsByCommand == UnitsByCommand(combatUnits)
      sortedLeaders == SortLeaders(leaders)
      corpsLeaders == SelectSeq(sortedLeaders, LAMBDA l : l.size = "Corps")
      divLeaders == SelectSeq(sortedLeaders, LAMBDA l : l.size = "Div")
      divToCorps == DivToCorps(corpsLeaders, divLeaders, unitsByCommand)
      led == ProcessLeaders(sortedLeaders, leaderByCommand, unitsByCommand,
                            divToCorps, Len(sortedLeaders))
  IN led.groups \o LeaderlessGroups(unitsByCommand, led.processed, Len(unitsByCommand))

\* processedCommands when the loop over the sorted leaders ends (line 208).
ProcessedCommands(us) ==
  LET leaders == SelectSeq(us, LAMBDA u : u.type = "Ldr")
      combatUnits == SelectSeq(us, LAMBDA u : u.type # "Ldr")
      leaderByCommand == LeaderByCommand(leaders)
      unitsByCommand == UnitsByCommand(combatUnits)
      sortedLeaders == SortLeaders(leaders)
      corpsLeaders == SelectSeq(sortedLeaders, LAMBDA l : l.size = "Corps")
      divLeaders == SelectSeq(sortedLeaders, LAMBDA l : l.size = "Div")
      divToCorps == DivToCorps(corpsLeaders, divLeaders, unitsByCommand)
  IN ProcessLeaders(sortedLeaders, leaderByCommand, unitsByCommand,
                    divToCorps, Len(sortedLeaders)).processed

\* IsCavalry satisfied by one "Cav" unit among the direct units.
IsCavalryAnyUnit(g) == \E i \in 1..Len(g.units) : g.units[i].type = "Cav"

\* aIsCavalry (line 240): at least one direct unit, and all of them "Cav".
IsCavalry(g) == Len(g.units) > 0 /\ \A i \in 1..Len(g.units) : g.units[i].type = "Cav"

\* aHasLeader (line 244)
HasLeader(g) == g.leader # None

\* a.leader?.size || "" (line 248)
LeaderSize(g) == IF g.leader # None THEN g.leader[1].size ELSE ""

\* GroupCompare with the first two keys exchanged: the cavalry test decides
\* before leader presence.
GroupCompareCavalryFirst(a, b) ==
  IF IsCavalry(a) # IsCavalry(b) THEN (IF IsCavalry(a) THEN 1 ELSE -1)
  ELSE IF HasLeader(a) # HasLeader(b) THEN (IF HasLeader(a) THEN -1 ELSE 1)
  ELSE 0

\* The comparator of sortCommandGroups (lines 237-270).
GroupCompare(a, b) ==
  IF HasLeader(a) # HasLeader(b) THEN (IF HasLeader(a) THEN -1 ELSE 1)
  ELSE IF IsCavalry(a) # IsCavalry(b) THEN (IF IsCavalry(a) THEN 1 ELSE -1)
  ELSE IF IsCavalry(a) /\ IsCavalry(b) /\ HasLeader(a) /\ HasLeader(b)
          /\ LeaderSize(a) = "Div" /\ LeaderSize(b) = "Corps" THEN -1
  ELSE IF IsCavalry(a) /\ IsCavalry(b) /\ HasLeader(a) /\ HasLeader(b)
          /\ LeaderSize(a) = "Corps" /\ LeaderSize(b) = "Div" THEN 1
  ELSE 0

\* x inserted into s after the last element that does not compare greater
\* than x.
InsertGroup(s, x) ==
  LET after == {i \in 1..Len(s) : GroupCompare(s[i], x) <= 0}
      pos == IF after = {} THEN 0 ELSE CHOOSE i \in after : \A j \in after : j <= i
  IN SubSeq(s, 1, pos) \o <<x>> \o SubSeq(s, pos + 1, Len(s))

RECURSIVE InsertionSort(_)
\* Array.prototype.sort as a linear insertion sort (the SpiderMonkey engine
\* on short arrays): each element moves left past the elements that compare
\* greater than it.
InsertionSort(gs) ==
  IF gs = <<>> THEN <<>>
  ELSE InsertGroup(InsertionSort(SubSeq(gs, 1, Len(gs) - 1)), gs[Len(gs)])

\* The length of the initial run of gs (Len(gs) >= 2): strictly descending
\* when the second element compares less than the first, else non-descending.
RunLength(gs) ==
  LET descending == GroupCompare(gs[2], gs[1]) < 0
      continues(i) == IF descending THEN GroupCompare(gs[i], gs[i - 1]) < 0
                      ELSE GroupCompare(gs[i], gs[i - 1]) >= 0
  IN CHOOSE r \in 2..Len(gs) :
       /\ \A i \in 3..r : continues(i)
       /\ r = Len(gs) \/ ~continues(r + 1)

\* gs with its initial run made ascending: a descending run is reversed.
MakeRun(gs) ==
  LET r == RunLength(gs)
  IN IF GroupCompare(gs[2], gs[1]) < 0
     THEN [i \in 1..Len(gs) |-> IF i <= r THEN gs[r + 1 - i] ELSE gs[i]]
     ELSE gs

RECURSIVE BinarySearch(_, _, _, _)
\* The insertion point (0-based) of pivot in s[left+1 .. right]: the search
\* goes left when pivot compares less than the middle element, else right.
BinarySearch(s, pivot, left, right) ==
  IF left >= right THEN left
  ELSE LET mid == left + ((right - left) \div 2)
       IN IF GroupCompare(pivot, s[mid + 1]) < 0
          THEN BinarySearch(s, pivot, left, mid)
          ELSE BinarySearch(s, pivot, mid + 1, right)

RECURSIVE BinaryInsertionSort(_, _)
\* gs after the elements past position `sorted` were inserted one by one
\* into the prefix before them.
BinaryInsertionSort(gs, sorted) ==
  IF sorted >= Len(gs) THEN gs
  ELSE LET pivot == gs[sorted + 1]
           left == BinarySearch(gs, pivot, 0, sorted)
       IN BinaryInsertionSort(SubSeq(gs, 1, left) \o <<pivot>>
                                \o SubSeq(gs, left + 1, sorted)
                                \o SubSeq(gs, sorted + 2, Len(gs)),
                              sorted + 1)

\* Array.prototype.sort as TimSort on an array shorter than its minimum run
\* length (the V8 engine): the initial run, then binary insertion.
TimSort(gs) ==
  IF Len(gs) < 2 THEN gs ELSE BinaryInsertionSort(MakeRun(gs), RunLength(gs))

RECURSIVE Merge(_, _)
\* The stable merge of two runs: the right head goes first only when it
\* compares less than the left head.
Merge(left, right) ==
  IF right = <<>> THEN left
  ELSE IF left = <<>> THEN right
  ELSE IF GroupCompare(Head(right), Head(left)) < 0
       THEN <<Head(right)>> \o Merge(left, Tail(right))
       ELSE <<Head(left)>> \o Merge(Tail(left), right)

RECURSIVE MergePass(_, _)
\* One pass over gs merging neighbouring runs of the given width.
MergePass(gs, width) ==
  IF Len(gs) <= width THEN gs
  ELSE LET n == Min(2 * width, Len(gs))
       IN Merge(SubSeq(gs, 1, width), SubSeq(gs, width + 1, n))
          \o MergePass(SubSeq(gs, n + 1, Len(gs)), width)

RECURSIVE MergeSort(_, _)
\* Array.prototype.sort as a bottom-up merge sort (the JavaScriptCore
\* engine): passes of width 1, 2, 4, ...
MergeSort(gs, width) ==
  IF width >= Len(gs) THEN gs ELSE MergeSort(MergePass(gs, width), 2 * width)

\* The implementations of Array.prototype.sort.  With a comparator that is
\* not a consistent ordering the result is implementation-defined, and
\* GroupCompare is not one (a Div-led cavalry group precedes a Corps-led one,
\* while a Brig-led one ties with both).
SortEngines == {"insertion", "timsort", "merge"}

\* sortCommandGroups(groups): [...groups].sort(comparator) on the given engine.
sortCommandGroups(gs, engine) ==
  CASE engine = "insertion" -> InsertionSort(gs)
    [] engine = "timsort" -> TimSort(gs)
    [] engine = "merge" -> MergeSort(gs, 1)

\* GroupsAfterSort when the array given to sortCommandGroups is sorted in place.
GroupsAfterSortInPlace(gs, engine) == sortCommandGroups(gs, engine)

\* The array given to sortCommandGroups when the call has returned: the sort
\* rearranges the copy [...groups] (line 237).
GroupsAfterSort(gs, engine) == gs

\* buildCommandHierarchy(units)
buildCommandHierarchy(us, engine) == sortCommandGroups(BuildGroups(us), engine)

\* The array given to buildCommandHierarchy when the call has returned: it is
\* read by filter (lines 47-48), and the sort of line 69 rearranges the copy
\* [...leaders].
UnitsAfterBuild(us) == us

\* NumColumns rounding down and adding one instead of rounding up.
NumColumnsFloorPlusOne(unitCount, maxPerColumn) == (unitCount \div maxPerColumn) + 1

\* numColumns (line 283)
NumColumns(unitCount, maxPerColumn) == Ceil(unitCount, maxPerColumn)

\* UnitsPerColumn rounding down.
UnitsPerColumnFloor(unitCount, maxPerColumn) ==
  unitCount \div Ceil(unitCount, maxPerColumn)

\* UnitsPerColumn filling every column up to the limit.
UnitsPerColumnGreedy(unitCount, maxPerColumn) == maxPerColumn

\* unitsPerColumn (line 286)
UnitsPerColumn(unitCount, maxPerColumn) ==
  Ceil(unitCount, NumColumns(unitCount, maxPerColumn))

\* ColumnGroup keeping the leader in every column.
ColumnGroupKeepLeader(group, maxPerColumn, i) ==
  LET unitCount == Len(group.units)
      unitsPerColumn == Ceil(unitCount, Ceil(unitCount, maxPerColumn))
      startIdx == i * unitsPerColumn
      endIdx == Min(startIdx + unitsPerColumn, unitCount)
  IN [group EXCEPT !.units = Slice(group.units, startIdx, endIdx),
                   !.columnIndex = Some(i + 1),
                   !.totalColumns = Some(Ceil(unitCount, maxPerColumn))]

\* ColumnGroup numbering the columns from zero.
ColumnGroupZeroBased(group, maxPerColumn, i) ==
  LET unitCount == Len(group.units)
      unitsPerColumn == Ceil(unitCount, Ceil(unitCount, maxPerColumn))
      startIdx == i * unitsPerColumn
      endIdx == Min(startIdx + unitsPerColumn, unitCount)
  IN [group EXCEPT !.units = Slice(group.units, startIdx, endIdx),
                   !.leader = IF i = 0 THEN group.leader ELSE None,
                   !.columnIndex = Some(i),
                   !.totalColumns = Some(Ceil(unitCount, maxPerColumn))]

\* The object pushed for column i (0-based) of a split group (lines 290-301).
ColumnGroup(group, maxPerColumn, i) ==
  LET unitCount == Len(group.units)
      unitsPerColumn == UnitsPerColumn(unitCount, maxPerColumn)
      startIdx == i * unitsPerColumn
      endIdx == Min(startIdx + unitsPerColumn, unitCount)
  IN [group EXCEPT !.units = Slice(group.units, startIdx, endIdx),
                   !.leader = IF i = 0 THEN group.leader ELSE None,
                   !.columnIndex = Some(i + 1),
                   !.totalColumns = Some(NumColumns(unitCount, maxPerColumn))]

\* splitGroupIntoColumns without the early return for small groups (lines
\* 277-280).
splitGroupIntoColumnsAlways(group, maxPerColumn) ==
  [c \in 1..Ceil(Len(group.units), maxPerColumn) |->
     ColumnGroup(group, maxPerColumn, c - 1)]

\* splitGroupIntoColumns(group, maxUnitsPerColumn), for maxUnitsPerColumn >= 1.
splitGroupIntoColumns(group, maxPerColumn) ==
  IF Len(group.units) <= maxPerColumn THEN <<group>>
  ELSE [c \in 1..NumColumns(Len(group.units), maxPerColumn) |->
          ColumnGroup(group, maxPerColumn, c - 1)]

\* SplitOneGroup attaching the subgroups to the first chunk without
\* splitting them.
SplitOneGroupUnsplitSubgroups(group, maxPerColumn) ==
  LET splitMain == splitGroupIntoColumns(group, maxPerColumn)
  IN [c \in 1..Len(splitMain) |->
        [splitMain[c] EXCEPT !.subgroups = IF c = 1 THEN group.subgroups ELSE <<>>]]

\* SplitOneGroup without the loop that clears the subgroups of the later
\* chunks (lines 329-334).
SplitOneGroupKeepSubgroups(group, maxPerColumn) ==
  LET splitMain == splitGroupIntoColumns(group, maxPerColumn)
      splitSubgroups ==
        Flatten([j \in 1..Len(group.subgroups) |->
                   splitGroupIntoColumns(group.subgroups[j], maxPerColumn)])
  IN IF Len(group.subgroups) > 0
     THEN [c \in 1..Len(splitMain) |->
             IF c = 1 THEN [splitMain[c] EXCEPT !.subgroups = splitSubgroups]
             ELSE splitMain[c]]
     ELSE splitMain

\* The chunks pushed to `result` for one group (lines 311-337).
SplitOneGroup(group, maxPerColumn) ==
  LET splitMain == splitGroupIntoColumns(group, maxPerColumn)
      splitSubgroups ==
        Flatten([j \in 1..Len(group.subgroups) |->
                   splitGroupIntoColumns(group.subgroups[j], maxPerColumn)])
  IN IF Len(group.subgroups) > 0
     THEN [c \in 1..Len(splitMain) |->
             [splitMain[c] EXCEPT !.subgroups = IF c = 1 THEN splitSubgroups ELSE <<>>]]
     ELSE splitMain

\* splitLargeGroups(groups, maxUnitsPerColumn)
splitLargeGroups(gs, maxPerColumn) ==
  Flatten([g \in 1..Len(gs) |-> SplitOneGroup(gs[g], maxPerColumn)])

\* The array given to splitLargeGroups when the call has returned: the
\* chunks are new objects ({...group}, lines 293-300, 323-333) pushed to new
\* arrays (lines 288, 309, 317).
GroupsAfterSplit(gs, maxPerColumn) == gs

-----------------------------------------------------------------------------
(* Inputs of the pipeline: the unit list of one army *)

\* Largest number of leaders and of combat units in an input unit list.
MaxLeaders == 2

MaxCombatUnits == 2

\* The limits tried besides MAX_UNITS_PER_COLUMN are 1..MaxColumnLimit.
MaxColumnLimit == 3

\* MAX_UNITS_PER_COLUMN of RosterSheet.tsx and FlowRosterSheet.tsx.
MAX_UNITS_PER_COLUMN == 6

ColumnLimits == (1..MaxColumnLimit) \cup {MAX_UNITS_PER_COLUMN}

LeaderNames == {<<"J">>, <<"L">>}

LeaderSizes == {"Army", "Corps", "Div", "Brig"}

CombatTypes == {"Inf", "Cav"}

\* Command codes "I", "II", "B-II", "A-B-II".
CodeI == <<"I">>

CodeII == <<"I", "I">>

CodeBII == <<"B", "-", "I", "I">>

CodeABII == <<"A", "-", "B", "-", "I", "I">>

Codes == {CodeI, CodeII, CodeBII, CavCode, Hyphen}

RECURSIVE SeqsUpTo(_, _)
\* All sequences over S of length at most n.
SeqsUpTo(S, n) ==
  IF n = 0 THEN {<<>>}
  ELSE LET shorter == SeqsUpTo(S, n - 1)
       IN shorter \cup {Append(s, x) : s \in {t \in shorter : Len(t) = n - 1}, x \in S}

\* A Unit (types.ts): the fields the hierarchy reads, and `id` for the
\* identity of the object.
Unit(id, name, size, command, type) ==
  [id |-> id, name |-> name, size |-> size, command |-> command, type |-> type]

LeaderPool == [name : LeaderNames, size : LeaderSizes, command : Codes, type : {"Ldr"}]

CombatPool == [name : {<<"U">>}, size : {"Brig"}, command : Codes, type : CombatTypes]

\* Object identity of the units of one input list: the position in the list.
WithIds(us) ==
  [i \in 1..Len(us) |-> Unit(i, us[i].name, us[i].size, us[i].command, us[i].type)]

\* us is a unit list of at most maxL leaders and maxC combat units.  Leaders
\* and combat units are filtered apart by lines 47-48, so only the order
\* within each kind matters: the leaders are listed first.
IsUnitList(us, leaderPool, combatPool, maxL, maxC) ==
  \E ls \in SeqsUpTo(leaderPool, maxL), cs \in SeqsUpTo(combatPool, maxC) :
    us = WithIds(ls \o cs)

\* Deeper lists of Corps and Div leaders over nested command codes.
MaxNestedLeaders == 4

MaxNestedCombatUnits == 1

NestedCodes == {CodeI, CodeII, CodeBII, CodeABII}

NestedLeaderPool ==
  [name : LeaderNames, size : {"Corps", "Div"}, command : NestedCodes, type : {"Ldr"}]

NestedCombatPool ==
  [name : {<<"U">>}, size : {"Brig"}, command : {CodeBII, CodeABII}, type : {"Inf"}]

-----------------------------------------------------------------------------
(* ArmySection (RosterSheet.tsx): build the hierarchy, then split it. *)

Init ==
  /\ IsUnitList(units, LeaderPool, CombatPool, MaxLeaders, MaxCombatUnits)
  /\ groups = <<>>
  /\ hierarchy = <<>>
  /\ maxUnitsPerColumn = 0
  /\ call = <<>>
  /\ codes = <<>>
  /\ subordinate = <<>>
  /\ footnotes = <<>>
  /\ fatigue = <<>>
  /\ splitGroups = <<>>
  /\ pc = "units"

\* const hierarchy = buildCommandHierarchy(units)
Build ==
  /\ pc = "units"
  /\ \E engine \in SortEngines :
       /\ groups' = GroupsAfterSort(BuildGroups(units), engine)
       /\ hierarchy' = sortCommandGroups(BuildGroups(units), engine)
  /\ units' = UnitsAfterBuild(units)
  /\ pc' = "hierarchy"
  /\ UNCHANGED <<maxUnitsPerColumn, splitGroups, call, footnotes, fatigue,
                 codes, subordinate>>

\* const splitGroups = splitLargeGroups(hierarchy, max)
Split ==
  /\ pc = "hierarchy"
  /\ \E max \in ColumnLimits :
       /\ maxUnitsPerColumn' = max
       /\ splitGroups' = splitLargeGroups(hierarchy, max)
       /\ hierarchy' = GroupsAfterSplit(hierarchy, max)
  /\ pc' = "splitGroups"
  /\ UNCHANGED <<units, groups, call, footnotes, fatigue, codes, subordinate>>

Next == Build \/ Split

Spec == Init /\ [][Next]_vars

-----------------------------------------------------------------------------
(* sortCommandGroups as a function of an arbitrary group list *)

\* Largest number of groups in a list given to the sorter.
MaxSortGroups == 3

\* The unit-type patterns of a group's direct units.
SortUnitTypes == {<<>>, <<"Inf">>, <<"Cav">>, <<"Cav", "Inf">>}

\* What the comparator reads of a group: its leader (size "" for none) and
\* the types of its direct units; `sub` is the unit type of its one subgroup,
\* if any.  Only a Corps group has subgroups, and only a group with
\* subgroups has no direct units (lines 166-173, 198, 213).
SortGroupKinds ==
  {k \in [size : {"", "Corps", "Div", "Brig"}, types : SortUnitTypes,
          sub : {"none", "Cav"}] :
     /\ k.sub # "none" => k.size = "Corps"
     /\ k.types = <<>> => k.sub # "none"}

\* The group of kind k at position p of the list.
SortGroup(k, p) ==
  LET code == <<Letters[p]>>
      leader == Unit(0 - p, <<"J">>, k.size, code, "Ldr")
      us == [i \in 1..Len(k.types) |->
               Unit(10 * p + i, <<"U">>, "Brig", code, k.types[i])]
      subCode == <<"A", "-", Letters[p]>>
      subLeader == Unit(0 - (10 * p), <<"L">>, "Div", subCode, "Ldr")
      subgroups ==
        IF k.sub = "none" THEN <<>>
        ELSE <<CommandGroup(Some(subLeader), subCode,
                            LeaderDisplayName(subCode, subLeader), "Div",
                            <<Unit(10 * p, <<"U">>, "Brig", subCode, k.sub)>>,
                            <<>>, Some(code))>>
  IN CommandGroup(IF k.size = "" THEN None ELSE Some(leader),
                  code,
                  IF k.size = "" THEN code ELSE LeaderDisplayName(code, leader),
                  k.size, us, subgroups, None)

\* A longer list: Corps-, Brig- and Div-led cavalry groups, two Brig-led
\* infantry groups, and a second Div-led cavalry group.
MixedCavalryKinds ==
  LET kind(size, type) == [size |-> size, types |-> <<type>>, sub |-> "none"]
  IN <<kind("Corps", "Cav"), kind("Brig", "Cav"), kind("Div", "Cav"),
       kind("Brig", "Inf"), kind("Brig", "Inf"), kind("Div", "Cav")>>

IsSortInput(gs) ==
  \E ks \in SeqsUpTo(SortGroupKinds, MaxSortGroups) \cup {MixedCavalryKinds} :
    gs = [p \in 1..Len(ks) |-> SortGroup(ks[p], p)]

InitSort ==
  /\ IsSortInput(groups)
  /\ units = <<>>
  /\ hierarchy = <<>>
  /\ maxUnitsPerColumn = 0
  /\ call = <<>>
  /\ codes = <<>>
  /\ subordinate = <<>>
  /\ footnotes = <<>>
  /\ fatigue = <<>>
  /\ splitGroups = <<>>
  /\ pc = "groups"

\* return sortCommandGroups(groups)
SortGroups ==
  /\ pc = "groups"
  /\ \E engine \in SortEngines :
       /\ hierarchy' = sortCommandGroups(groups, engine)
       /\ groups' = GroupsAfterSort(groups, engine)
  /\ pc' = "hierarchy"
  /\ UNCHANGED <<units, maxUnitsPerColumn, splitGroups, call, footnotes,
                 fatigue, codes, subordinate>>

NextSort == SortGroups

SpecSort == InitSort /\ [][NextSort]_vars

-----------------------------------------------------------------------------
(* splitLargeGroups as a function of a hierarchy and a limit *)

\* Largest number of top-level groups, of subgroups of one group, and of
\* combat units in the whole forest.
MaxGroups == 2

MaxSubgroups == 1

MaxForestUnits == 6

RECURSIVE SubgroupSizes(_, _)
\* The unit counts of at most k subgroups holding at most t units together.
SubgroupSizes(k, t) ==
  IF k = 0 THEN {<<>>}
  ELSE {<<>>} \cup UNION {{<<n>> \o ss : ss \in SubgroupSizes(k - 1, t - n)} : n \in 0..t}

RECURSIVE Sum(_)
Sum(ns) == IF ns = <<>> THEN 0 ELSE Head(ns) + Sum(Tail(ns))

ShapeUnits(shape) == shape.n + Sum(shape.subs)

\* The shapes of one top-level group of the builder holding exactly t units:
\* leaderless or led without subgroups (at least one unit), or a Corps group
\* with Div subgroups (any number of direct units).
GroupShapes(t) ==
  [size : {"", "Brig"}, n : {t} \ {0}, subs : {<<>>}]
  \cup {sh \in {[size |-> "Corps", n |-> n, subs |-> ss] :
                  n \in 0..t, ss \in SubgroupSizes(MaxSubgroups, t) \ {<<>>}} :
          ShapeUnits(sh) = t}

\* The units of a list of group shapes.
ShapesUnits(shapes) == Sum([p \in 1..Len(shapes) |-> ShapeUnits(shapes[p])])

RECURSIVE ForestShapes(_, _)
\* The shapes of at most g top-level groups holding at most t units together.
ForestShapes(g, t) ==
  IF g = 0 THEN {<<>>}
  ELSE LET shorter == ForestShapes(g - 1, t)
           longest == {f \in shorter : Len(f) = g - 1}
           shapes == UNION {GroupShapes(s) : s \in 0..t}
       IN shorter \cup
          {Append(q[1], q[2]) :
             q \in {r \in longest \X shapes : ShapesUnits(r[1]) + ShapeUnits(r[2]) <= t}}

\* n combat units of command `code` with identities first + 1 .. first + n.
ShapeUnitList(code, first, n) ==
  [i \in 1..n |-> Unit(first + i, <<"U">>, "Brig", code, "Inf")]

\* The group of the given shape at position p, its units numbered from first + 1.
ShapeGroup(shape, p, first) ==
  LET code == <<Letters[p]>>
      leader == Unit(0 - p, <<"J">>, shape.size, code, "Ldr")
      subCode(j) == <<Letters[j], "-", Letters[p]>>
      subLeader(j) == Unit(0 - (10 * p + j), <<"L">>, "Div", subCode(j), "Ldr")
      subFirst(j) == first + shape.n + Sum(SubSeq(shape.subs, 1, j - 1))
  IN CommandGroup(IF shape.size = "" THEN None ELSE Some(leader),
                  code,
                  IF shape.size = "" THEN code ELSE LeaderDisplayName(code, leader),
                  shape.size,
                  ShapeUnitList(code, first, shape.n),
                  [j \in 1..Len(shape.subs) |->
                     CommandGroup(Some(subLeader(j)), subCode(j),
                                  LeaderDisplayName(subCode(j), subLeader(j)), "Div",
                                  ShapeUnitList(subCode(j), subFirst(j), shape.subs[j]),
                                  <<>>, Some(code))],
                  None)

\* The forest of the given shapes: every unit is a distinct object.
ShapeForest(shapes) ==
  [p \in 1..Len(shapes) |->
     ShapeGroup(shapes[p], p,
                Sum([q \in 1..(p - 1) |-> ShapeUnits(shapes[q])]))]

\* Thirteen units under the one leaderless code "X".
ThirteenUnits == 13

ThirteenUnitForest ==
  <<CommandGroup(None, <<"X">>, <<"X">>, "",
                 ShapeUnitList(<<"X">>, 0, ThirteenUnits), <<>>, None)>>

\* A corps with one unit more than MAX_UNITS_PER_COLUMN of its own and a
\* division of one unit.
LargeCorpsForest ==
  ShapeForest(<<[size |-> "Corps", n |-> MAX_UNITS_PER_COLUMN + 1, subs |-> <<1>>]>>)

IsSplitInput(gs) ==
  \/ \E shapes \in ForestShapes(MaxGroups, MaxForestUnits) : gs = ShapeForest(shapes)
  \/ gs = ThirteenUnitForest
  \/ gs = LargeCorpsForest

InitSplit ==
  /\ IsSplitInput(hierarchy)
  /\ units = <<>>
  /\ groups = <<>>
  /\ maxUnitsPerColumn = 0
  /\ call = <<>>
  /\ codes = <<>>
  /\ subordinate = <<>>
  /\ footnotes = <<>>
  /\ fatigue = <<>>
  /\ splitGroups = <<>>
  /\ pc = "hierarchy"

NextSplit == Split

SpecSplit == InitSplit /\ [][NextSplit]_vars

\* The same pipeline on the deeper Corps/Div unit lists.
InitNested ==
  /\ IsUnitList(units, NestedLeaderPool, NestedCombatPool,
                MaxNestedLeaders, MaxNestedCombatUnits)
  /\ groups = <<>>
  /\ hierarchy = <<>>
  /\ maxUnitsPerColumn = 0
  /\ call = <<>>
  /\ codes = <<>>
  /\ subordinate = <<>>
  /\ footnotes = <<>>
  /\ fatigue = <<>>
  /\ splitGroups = <<>>
  /\ pc = "units"

SpecNested == InitNested /\ [][Next]_vars

\* The same pipeline on unit lists in which leaders of every size, Army and
\* District included, share the command codes "II" and "B-II".
MaxSharedLeaders == 3

MaxSharedCombatUnits == 1

SharedLeaderPool ==
  [name : LeaderNames, size : {"Army", "District", "Corps", "Div"},
   command : {CodeII, CodeBII}, type : {"Ldr"}]

SharedCombatPool ==
  [name : {<<"U">>}, size : {"Brig"}, command : {CodeII, CodeBII}, type : {"Inf"}]

InitShared ==
  /\ IsUnitList(units, SharedLeaderPool, SharedCombatPool,
                MaxSharedLeaders, MaxSharedCombatUnits)
  /\ groups = <<>>
  /\ hierarchy = <<>>
  /\ maxUnitsPerColumn = 0
  /\ call = <<>>
  /\ codes = <<>>
  /\ subordinate = <<>>
  /\ footnotes = <<>>
  /\ fatigue = <<>>
  /\ splitGroups = <<>>
  /\ pc = "units"

SpecShared == InitShared /\ [][Next]_vars

\* The same pipeline on unit lists whose combat units carry no command, a
\* "none" sentinel, or the code "B-II", with Brig leaders coded "II" and
\* "B-II".
MaxIndependentLeaders == 2

MaxIndependentUnits == 4

IndependentLeaderPool ==
  [name : {<<"J">>}, size : {"Brig"}, command : {CodeII, CodeBII}, type : {"Ldr"}]

IndependentCombatPool ==
  [name : {<<"U">>}, size : {"Brig"}, command : {<<>>, Hyphen, EmDash, CodeBII},
   type : {"Inf"}]

InitIndependent ==
  /\ IsUnitList(units, IndependentLeaderPool, IndependentCombatPool,
                MaxIndependentLeaders, MaxIndependentUnits)
  /\ groups = <<>>
  /\ hierarchy = <<>>
  /\ maxUnitsPerColumn = 0
  /\ call = <<>>
  /\ codes = <<>>
  /\ subordinate = <<>>
  /\ footnotes = <<>>
  /\ fatigue = <<>>
  /\ splitGroups = <<>>
  /\ pc = "units"

SpecIndependent == InitIndependent /\ [][Next]_vars

-----------------------------------------------------------------------------
(* splitLargeGroups followed one loop iteration at a time, for any integer *)
(* limit.  call.group and call.subgroup are the positions of the outer     *)
(* loop (line 311) and of the subgroup loop (line 318; 0 while the group's *)
(* own units are split, line 313); call.splitGroups is the local array of  *)
(* the running splitGroupIntoColumns call (line 288), of which the model   *)
(* records the first MaxColumnSteps columns; call.more counts the columns  *)
(* pushed after those, modulo 2.                                            *)

MaxStepLeaders == 2

MaxStepCombatUnits == 3

\* The columns of one splitGroupIntoColumns call the model records.
MaxColumnSteps == 4

StepLeaderPool ==
  [name : {<<"J">>}, size : {"Corps", "Div"}, command : {CodeII, CodeBII}, type : {"Ldr"}]

StepCombatPool ==
  [name : {<<"U">>}, size : {"Brig"}, command : {CodeII, CodeBII}, type : {"Inf"}]

\* maxUnitsPerColumn is typed as a number only: zero and negative limits too.
IntegerLimits == (0 - MaxColumnLimit)..MaxColumnLimit

\* Number.POSITIVE_INFINITY
Infinity == "Infinity"

\* The group the running splitGroupIntoColumns call was given.
CallGroup ==
  IF call.subgroup = 0 THEN hierarchy[call.group]
  ELSE hierarchy[call.group].subgroups[call.subgroup]

\* Math.ceil(unitCount / max) is Infinity: a positive count over zero.
NumColumnsIsInfinite(unitCount, max) == max = 0 /\ unitCount > 0

\* Math.ceil(unitCount / max) where it is finite (line 283), unitCount > max:
\* for a negative limit the quotient is not positive and rounds towards zero.
NumColumnsAnyLimit(unitCount, max) ==
  IF max > 0 THEN Ceil(unitCount, max) ELSE 0 - (unitCount \div (0 - max))

\* Math.ceil(unitCount / numColumns) (line 286) where the loop body runs:
\* zero when numColumns is Infinity.
UnitsPerColumnAnyLimit(unitCount, max) ==
  IF max > 0 THEN Ceil(unitCount, Ceil(unitCount, max)) ELSE 0

\* i < numColumns (line 289)
LoopContinues(i, unitCount, max) ==
  IF NumColumnsIsInfinite(unitCount, max) THEN TRUE
  ELSE i < NumColumnsAnyLimit(unitCount, max)

\* The locals after the running splitGroupIntoColumns call returned `chunks`:
\* they become splitMain (line 313) or are pushed to splitSubgroups (line 319).
Returned(chunks) ==
  [call EXCEPT !.subgroup = call.subgroup + 1,
               !.splitMain = IF call.subgroup = 0 THEN chunks ELSE call.splitMain,
               !.splitSubgroups = IF call.subgroup = 0 THEN call.splitSubgroups
                                  ELSE call.splitSubgroups \o chunks,
               !.splitGroups = <<>>,
               !.more = 0]

InitSteps ==
  /\ IsUnitList(units, StepLeaderPool, StepCombatPool, MaxStepLeaders, MaxStepCombatUnits)
  /\ groups = <<>>
  /\ hierarchy = <<>>
  /\ maxUnitsPerColumn = 0
  /\ call = <<>>
  /\ codes = <<>>
  /\ subordinate = <<>>
  /\ footnotes = <<>>
  /\ fatigue = <<>>
  /\ splitGroups = <<>>
  /\ pc = "units"

\* splitLargeGroups(hierarchy, max) is entered: const result = [] (line 309).
EnterSplit ==
  /\ pc = "hierarchy"
  /\ \E max \in IntegerLimits : maxUnitsPerColumn' = max
  /\ splitGroups' = <<>>
  /\ call' = [group |-> 1, subgroup |-> 0, splitMain |-> <<>>,
              splitSubgroups |-> <<>>, splitGroups |-> <<>>, more |-> 0]
  /\ pc' = "splitLargeGroups"
  /\ UNCHANGED <<units, groups, hierarchy, footnotes, fatigue, codes,
                 subordinate>>

\* The call of splitGroupIntoColumns is due: the group's own units, or the
\* next subgroup.
CallDue ==
  /\ pc = "splitLargeGroups"
  /\ call.group <= Len(hierarchy)
  /\ call.subgroup <= Len(hierarchy[call.group].subgroups)

\* if (unitCount <= maxUnitsPerColumn) return [group] (lines 278-280)
ReturnGroup ==
  /\ CallDue
  /\ Len(CallGroup.units) <= maxUnitsPerColumn
  /\ call' = Returned(<<CallGroup>>)
  /\ UNCHANGED <<units, groups, hierarchy, maxUnitsPerColumn, splitGroups,
                 pc, footnotes, fatigue, codes, subordinate>>

\* One iteration of the loop of lines 289-302.  Past MaxColumnSteps columns
\* the iteration is counted in call.more and the array is not extended.
PushColumn ==
  /\ CallDue
  /\ Len(CallGroup.units) > maxUnitsPerColumn
  /\ LET group == CallGroup
         unitCount == Len(group.units)
         i == Len(call.splitGroups)
         unitsPerColumn == UnitsPerColumnAnyLimit(unitCount, maxUnitsPerColumn)
         startIdx == i * unitsPerColumn
         endIdx == Min(startIdx + unitsPerColumn, unitCount)
         column ==
           [group EXCEPT !.units = Slice(group.units, startIdx, endIdx),
                         !.leader = IF i = 0 THEN group.leader ELSE None,
                         !.columnIndex = Some(i + 1),
                         !.totalColumns =
                           IF NumColumnsIsInfinite(unitCount, maxUnitsPerColumn)
                           THEN Some(Infinity)
                           ELSE Some(NumColumnsAnyLimit(unitCount, maxUnitsPerColumn))]
     IN /\ LoopContinues(i, unitCount, maxUnitsPerColumn)
        /\ call' = IF i < MaxColumnSteps
                   THEN [call EXCEPT !.splitGroups = Append(call.splitGroups, column)]
                   ELSE [call EXCEPT !.more = (call.more + 1) % 2]
  /\ UNCHANGED <<units, groups, hierarchy, maxUnitsPerColumn, splitGroups,
                 pc, footnotes, fatigue, codes, subordinate>>

\* The loop of lines 289-302 ends: return splitGroups (line 304).
ReturnColumns ==
  /\ CallDue
  /\ Len(CallGroup.units) > maxUnitsPerColumn
  /\ ~LoopContinues(Len(call.splitGroups), Len(CallGroup.units), maxUnitsPerColumn)
  /\ call' = Returned(call.splitGroups)
  /\ UNCHANGED <<units, groups, hierarchy, maxUnitsPerColumn, splitGroups,
                 pc, footnotes, fatigue, codes, subordinate>>

\* Lines 316-337 for the current group, and the next round of the outer loop.
\* Where splitMain is empty, splitMain[0] = {...undefined, subgroups} makes
\* it one object that has the subgroups alone.
PushResult ==
  /\ pc = "splitLargeGroups"
  /\ call.group <= Len(hierarchy)
  /\ call.subgroup > Len(hierarchy[call.group].subgroups)
  /\ LET splitMain ==
           IF Len(hierarchy[call.group].subgroups) = 0 THEN call.splitMain
           ELSE IF call.splitMain = <<>> THEN <<[subgroups |-> call.splitSubgroups]>>
           ELSE [c \in 1..Len(call.splitMain) |->
                   [call.splitMain[c] EXCEPT
                      !.subgroups = IF c = 1 THEN call.splitSubgroups ELSE <<>>]]
     IN splitGroups' = splitGroups \o splitMain
  /\ call' = [group |-> call.group + 1, subgroup |-> 0, splitMain |-> <<>>,
              splitSubgroups |-> <<>>, splitGroups |-> <<>>, more |-> 0]
  /\ UNCHANGED <<units, groups, hierarchy, maxUnitsPerColumn, pc, footnotes,
                 fatigue, codes, subordinate>>

\* The outer loop ends: return result (line 340).
ReturnResult ==
  /\ pc = "splitLargeGroups"
  /\ call.group > Len(hierarchy)
  /\ call' = <<>>
  /\ pc' = "splitGroups"
  /\ UNCHANGED <<units, groups, hierarchy, maxUnitsPerColumn, splitGroups,
                 footnotes, fatigue, codes, subordinate>>

NextSteps ==
  \/ Build
  \/ EnterSplit
  \/ ReturnGroup
  \/ PushColumn
  \/ ReturnColumns
  \/ PushResult
  \/ ReturnResult

\* The steps of a splitLargeGroups call.
SplitterSteps ==
  \/ EnterSplit
  \/ ReturnGroup
  \/ PushColumn
  \/ ReturnColumns
  \/ PushResult
  \/ ReturnResult

\* The code is single-threaded and runs on: once the hierarchy is built, a
\* step of the splitter that can be taken is taken.
SpecSteps == InitSteps /\ [][NextSteps]_vars /\ WF_vars(SplitterSteps)

-----------------------------------------------------------------------------
(* Properties of buildCommandHierarchy *)

\* Every `units` list of a forest: of each top-level group, then of its subgroups.
UnitLists(gs) ==
  Flatten([p \in 1..Len(gs) |->
             <<gs[p].units>> \o [j \in 1..Len(gs[p].subgroups) |-> gs[p].subgroups[j].units]])

\* The number of `units` slots of the forest gs that hold the unit u.
Occurrences(u, gs) ==
  LET all == Flatten(UnitLists(gs))
  IN Cardinality({i \in 1..Len(all) : all[i].id = u.id})

CombatUnitsOf(us) == {us[i] : i \in {k \in 1..Len(us) : us[k].type # "Ldr"}}

Built == pc \in {"hierarchy", "splitGroups"}

\* C1: no combat unit of the input appears more than once across all the
\* `units` lists of the forest returned by buildCommandHierarchy (top-level
\* groups and subgroups together).
C1_NoUnitDuplicated ==
  Built => \A u \in CombatUnitsOf(units) : Occurrences(u, hierarchy) <= 1

\* C2: every combat unit of the input appears in at least one `units` list
\* of the forest returned by buildCommandHierarchy: no unit is dropped.
C2_NoUnitDropped ==
  Built => \A u \in CombatUnitsOf(units) : Occurrences(u, hierarchy) >= 1

\* "-" + C occurs in D followed by the end of D or by another "-".
IsDashSegment(D, C) ==
  \E off \in 0..(Len(D) - Len(C) - 1) :
    /\ \A i \in 1..(Len(C) + 1) : D[off + i] = (Hyphen \o C)[i]
    /\ (off + Len(C) + 1 = Len(D) \/ D[off + Len(C) + 2] = "-")

\* C3: a Div-led subgroup with code D is attached by the textual rule to the
\* corps group with code C only if "-" + C is a suffix or a complete
\* dash-delimited segment of D (the only other attachment is the cavalry
\* rule, to the corps "Cav", of a division that has a "Cav" unit).
C3_SubgroupIsDashSegment ==
  Built =>
    \A p \in 1..Len(hierarchy) : \A j \in 1..Len(hierarchy[p].subgroups) :
      LET corps == hierarchy[p]
          div == corps.subgroups[j]
      IN \/ IsDashSegment(div.commandCode, corps.commandCode)
         \/ /\ corps.commandCode = CavCode
            /\ \E i \in 1..Len(div.units) : div.units[i].type = "Cav"

\* The leaders of the input of the given size.
LeadersOfSize(size) ==
  {units[i] : i \in {k \in 1..Len(units) : units[k].type = "Ldr" /\ units[k].size = size}}

\* The combat units of the input filed under the command code cmd, in input
\* order (a unit with an empty command is filed under "-").
UnitsCoded(cmd) ==
  SelectSeq(units, LAMBDA u : u.type # "Ldr"
                              /\ (IF u.command = <<>> THEN Hyphen ELSE u.command) = cmd)

\* The code cmd contains "-" + C for the code C of some Corps leader.
TextuallyUnderSomeCorps(cmd) ==
  \E c \in LeadersOfSize("Corps") :
    LET pat == Hyphen \o c.command
    IN \E off \in 0..(Len(cmd) - Len(pat)) : \A i \in 1..Len(pat) : cmd[off + i] = pat[i]

HasCavUnit(cmd) ==
  \E i \in 1..Len(UnitsCoded(cmd)) : UnitsCoded(cmd)[i].type = "Cav"

HasCavCorps == \E c \in LeadersOfSize("Corps") : c.command = CavCode

\* C14: with a Corps leader coded "Cav" in the input, every Div leader whose
\* code is under no Corps leader's code textually and has a "Cav" unit is
\* emitted as a subgroup, holding the units of its code, of the "Cav" corps
\* group, and not as a top-level group; and a subgroup that is not textually
\* under its parent is a division with a "Cav" unit under the "Cav" corps.
C14_CavalryDivisionUnderCavCorps ==
  Built =>
    /\ HasCavCorps =>
         \A d \in LeadersOfSize("Div") :
           (~TextuallyUnderSomeCorps(d.command) /\ HasCavUnit(d.command)) =>
             /\ \E p \in 1..Len(hierarchy) :
                  /\ hierarchy[p].commandCode = CavCode
                  /\ \E j \in 1..Len(hierarchy[p].subgroups) :
                       /\ hierarchy[p].subgroups[j].commandCode = d.command
                       /\ hierarchy[p].subgroups[j].units = UnitsCoded(d.command)
             /\ \A p \in 1..Len(hierarchy) :
                  hierarchy[p].commandCode = d.command => d.command = CavCode
    /\ \A p \in 1..Len(hierarchy) : \A j \in 1..Len(hierarchy[p].subgroups) :
         LET sub == hierarchy[p].subgroups[j]
         IN \/ TextuallyUnderSomeCorps(sub.commandCode)
            \/ /\ HasCavCorps
               /\ hierarchy[p].commandCode = CavCode
               /\ HasCavUnit(sub.commandCode)

\* C15: no group of the forest returned by buildCommandHierarchy, top-level
\* or subgroup, has a leader of size "Army" or "District".
C15_NoArmyOrDistrictLeader ==
  Built =>
    \A p \in 1..Len(hierarchy) :
      LET led == <<hierarchy[p]>> \o hierarchy[p].subgroups
      IN \A j \in 1..Len(led) :
           led[j].leader # None => led[j].leader[1].size \notin {"Army", "District"}

\* The command codes under which the combat units of the input are filed.
UnitCodes ==
  {IF units[i].command = <<>> THEN Hyphen ELSE units[i].command :
     i \in {k \in 1..Len(units) : units[k].type # "Ldr"}}

Independent == <<"I", "n", "d", "e", "p", "e", "n", "d", "e", "n", "t">>

\* C16: the forest returned by buildCommandHierarchy has exactly one
\* leaderless group (leader null, size "") for each command code that has a
\* combat unit and was not consumed by a leader; it holds all the units of
\* that code in input order, units without a command counting under "-", and
\* is named "Independent" for "-" and the em-dash and by its code otherwise.
\* There is no other leaderless group, and none without units.
C16_OneLeaderlessGroupPerFreeCode ==
  Built =>
    LET free == UnitCodes \ ProcessedCommands(units)
        leaderless == SelectSeq(hierarchy, LAMBDA g : g.leader = None)
    IN /\ \A c \in free :
            Cardinality({i \in 1..Len(leaderless) : leaderless[i].commandCode = c}) = 1
       /\ \A i \in 1..Len(leaderless) :
            LET g == leaderless[i]
            IN /\ g.commandCode \in free
               /\ g.size = ""
               /\ g.units = UnitsCoded(g.commandCode)
               /\ g.units # <<>>
               /\ g.subgroups = <<>>
               /\ g.displayName = IF g.commandCode \in {Hyphen, EmDash}
                                  THEN Independent ELSE g.commandCode
       /\ \A p \in 1..Len(hierarchy) : \A j \in 1..Len(hierarchy[p].subgroups) :
            hierarchy[p].subgroups[j].leader # None

\* A unit without a command and a unit coded "-" came back, in input order,
\* in the one "Independent" group of "-", a unit coded with the em-dash in
\* another, and the code "B-II" was consumed by the leader of "II".
C16_Witness ==
  /\ Built
  /\ \E p \in 1..Len(hierarchy) :
       /\ hierarchy[p].leader = None
       /\ hierarchy[p].commandCode = Hyphen
       /\ Len(hierarchy[p].units) = 2
       /\ hierarchy[p].units[1].command = <<>>
       /\ hierarchy[p].units[2].command = Hyphen
  /\ \E p \in 1..Len(hierarchy) :
       /\ hierarchy[p].leader = None
       /\ hierarchy[p].commandCode = EmDash
       /\ hierarchy[p].displayName = Independent
  /\ CodeBII \in UnitCodes \cap ProcessedCommands(units)
  /\ \A p \in 1..Len(hierarchy) : hierarchy[p].commandCode # CodeBII

\* C17: in the forest returned by buildCommandHierarchy a group without
\* direct units is a top-level group led by a Corps leader that has at least
\* one subgroup; every other group, and every subgroup, has a unit.
C17_OnlyCorpsWithSubgroupsIsEmpty ==
  Built =>
    \A p \in 1..Len(hierarchy) :
      /\ hierarchy[p].units = <<>> =>
           /\ hierarchy[p].leader # None
           /\ hierarchy[p].leader[1].size = "Corps"
           /\ hierarchy[p].subgroups # <<>>
      /\ \A j \in 1..Len(hierarchy[p].subgroups) :
           hierarchy[p].subgroups[j].units # <<>>

\* The leaders of the input, in input order.
InputLeaders == SelectSeq(units, LAMBDA u : u.type = "Ldr")

\* The command codes, "none" sentinels apart, that two or more leaders of the
\* input carry.
SharedCodes ==
  {c \in {InputLeaders[i].command : i \in 1..Len(InputLeaders)} :
     ~IsNoneCode(c) /\
     Cardinality({i \in 1..Len(InputLeaders) : InputLeaders[i].command = c}) >= 2}

\* The last leader coded c in the order of size precedence, then name.
LastSortedLeader(c) ==
  LET sorted == SortLeaders(InputLeaders)
      mine == {i \in 1..Len(sorted) : sorted[i].command = c}
  IN sorted[CHOOSE i \in mine : \A k \in mine : k <= i]

\* What a unit says, without the identity of the object.
UnitData(u) == [name |-> u.name, size |-> u.size, command |-> u.command, type |-> u.type]

\* What a group says of itself, and what a forest says.
GroupData(g) ==
  [leader |-> IF g.leader = None THEN None ELSE Some(UnitData(g.leader[1])),
   commandCode |-> g.commandCode, displayName |-> g.displayName, size |-> g.size,
   units |-> [i \in 1..Len(g.units) |-> UnitData(g.units[i])]]

ForestData(gs) ==
  [p \in 1..Len(gs) |->
     [group |-> GroupData(gs[p]),
      subgroups |-> [j \in 1..Len(gs[p].subgroups) |-> GroupData(gs[p].subgroups[j])]]]

\* Every group of a forest, top-level groups and subgroups alike.
AllGroups(gs) ==
  Flatten([p \in 1..Len(gs) |-> <<gs[p]>> \o gs[p].subgroups])

\* us with the elements at positions i and j exchanged.
Exchanged(us, i, j) ==
  [k \in 1..Len(us) |-> IF k = i THEN us[j] ELSE IF k = j THEN us[i] ELSE us[k]]

\* C18, first part: a command code shared by several leaders gets at most
\* one group.
C18_AtMostOneGroupPerSharedCode ==
  Built =>
    \A c \in SharedCodes :
      LET all == AllGroups(hierarchy)
      IN Cardinality({i \in 1..Len(all) : all[i].commandCode = c}) <= 1

\* C18, second part: the group of a shared code is led by the leader of that
\* code that is last in the processing order.
C18_LastSortedLeaderLeads ==
  Built =>
    \A c \in SharedCodes :
      LET all == AllGroups(hierarchy)
      IN \A i \in 1..Len(all) :
           all[i].commandCode = c =>
             /\ all[i].leader # None
             /\ UnitData(all[i].leader[1]) = UnitData(LastSortedLeader(c))

\* C18, third part: exchanging two leaders of the input list does not change
\* what the groups built say.
C18_InputOrderIrrelevant ==
  Built =>
    \A i \in 1..Len(units) : \A j \in 1..Len(units) :
      (i < j /\ units[i].type = "Ldr" /\ units[j].type = "Ldr") =>
        ForestData(BuildGroups(Exchanged(units, i, j))) = ForestData(groups)

\* C18: when several leaders of the input share a command code,
\* buildCommandHierarchy emits at most one group for the code, led by the
\* leader that is last in the sorted processing order, and the result does
\* not depend on the order of the leaders in the input.
C18_SharedCodeResolvedBySortOrder ==
  /\ C18_AtMostOneGroupPerSharedCode
  /\ C18_LastSortedLeaderLeads
  /\ C18_InputOrderIrrelevant

-----------------------------------------------------------------------------
(* Properties of sortCommandGroups *)

DirectUnitsAllCav(g) ==
  /\ g.units # <<>>
  /\ {g.units[i].type : i \in 1..Len(g.units)} = {"Cav"}

\* 0: led non-cavalry, 1: led cavalry, 2: leaderless non-cavalry,
\* 3: leaderless cavalry.
Bucket(g) ==
  (IF g.leader = None THEN 2 ELSE 0) + (IF DirectUnitsAllCav(g) THEN 1 ELSE 0)

SortKey(g) ==
  <<g.leader # None, DirectUnitsAllCav(g),
    IF g.leader # None THEN g.leader[1].size ELSE "">>

-----------------------------------------------------------------------------
(* Termination *)

\* C19: buildCommandHierarchy returns a list for every unit list, and
\* splitLargeGroups, called on it with any integer maxUnitsPerColumn (zero
\* and negative limits included), returns: once the hierarchy is built the
\* pipeline reaches the point where splitGroups is assigned.
C19_PipelineReturns == (pc = "hierarchy") ~> (pc = "splitGroups")

-----------------------------------------------------------------------------
(* Properties of splitGroupIntoColumns and splitLargeGroups.  The group     *)
(* lists given to the splitter hold one group per command code, so the     *)
(* chunks of a group are the output groups that carry its code.             *)

SplitDone == pc = "splitGroups"

\* The chunks emitted for the top-level group at position p.
ChunksOf(p) ==
  SelectSeq(splitGroups, LAMBDA c : c.commandCode = hierarchy[p].commandCode)

\* The chunks emitted for subgroup j of the group at position p, among the
\* subgroups attached to that group's first chunk.
SubChunksOf(p, j) ==
  SelectSeq(ChunksOf(p)[1].subgroups,
            LAMBDA c : c.commandCode = hierarchy[p].subgroups[j].commandCode)

\* Every input group, top-level or subgroup, with the chunks emitted for it.
Families ==
  {[group |-> hierarchy[p], chunks |-> ChunksOf(p)] : p \in 1..Len(hierarchy)}
  \cup UNION {{[group |-> hierarchy[p].subgroups[j], chunks |-> SubChunksOf(p, j)] :
                 j \in 1..Len(hierarchy[p].subgroups)} : p \in 1..Len(hierarchy)}

\* The families that were split into two or more chunks.
SplitFamilies == {f \in Families : Len(f.chunks) >= 2}

ChunkUnits(chunks) == Flatten([c \in 1..Len(chunks) |-> chunks[c].units])

ChunkSizes(chunks) == {Len(chunks[c].units) : c \in 1..Len(chunks)}

\* C4: the units of the chunks of a group, concatenated in column order, are
\* the group's units in the original order.
C4_ConcatenationIsOriginal ==
  SplitDone => \A f \in Families : ChunkUnits(f.chunks) = f.group.units

\* A group was split into three or more chunks, the last one shorter.
C4_Witness ==
  /\ SplitDone
  /\ \E f \in SplitFamilies :
       /\ Len(f.chunks) >= 3
       /\ Len(f.chunks[Len(f.chunks)].units) < Len(f.chunks[1].units)
       /\ ChunkUnits(f.chunks) = f.group.units

\* C5 as claimed: in every split group the largest chunk size minus the
\* smallest chunk size is at most 1.
C5_SizesDifferByAtMostOne ==
  SplitDone =>
    \A f \in SplitFamilies : \A a \in ChunkSizes(f.chunks), b \in ChunkSizes(f.chunks) :
      a - b <= 1

\* C5 amended: in every split group all chunks but the last have the same
\* size, the last chunk is not larger, and the largest chunk size minus the
\* smallest is at most the number of chunks minus 1.
C5_OnlyLastChunkSmaller ==
  SplitDone =>
    \A f \in SplitFamilies :
      LET N == Len(f.chunks)
          size(c) == Len(f.chunks[c].units)
      IN /\ \A c \in 1..(N - 1) : size(c) = size(1)
         /\ size(N) <= size(1)
         /\ size(1) - size(N) <= N - 1

\* A split group whose chunk sizes differ by two.
C5_Witness ==
  /\ SplitDone
  /\ \E f \in SplitFamilies :
       Len(f.chunks[1].units) - Len(f.chunks[Len(f.chunks)].units) = 2

\* C6: every group of the output of splitLargeGroups, and every subgroup
\* attached to an output group, has at most maxUnitsPerColumn units.
C6_NoChunkExceedsLimit ==
  SplitDone =>
    \A c \in 1..Len(splitGroups) :
      /\ Len(splitGroups[c].units) <= maxUnitsPerColumn
      /\ \A j \in 1..Len(splitGroups[c].subgroups) :
           Len(splitGroups[c].subgroups[j].units) <= maxUnitsPerColumn

\* A group and one of its subgroups both held more units than the limit.
C6_Witness ==
  /\ SplitDone
  /\ \E p \in 1..Len(hierarchy) :
       /\ Len(hierarchy[p].units) > maxUnitsPerColumn
       /\ \E j \in 1..Len(hierarchy[p].subgroups) :
            Len(hierarchy[p].subgroups[j].units) > maxUnitsPerColumn

\* C7 as claimed: of the chunks of every split group exactly one, the first,
\* has a non-null leader, whether or not the group had a leader.
C7_FirstChunkHasLeader ==
  SplitDone =>
    \A f \in SplitFamilies :
      /\ f.chunks[1].leader # None
      /\ \A c \in 2..Len(f.chunks) : f.chunks[c].leader = None

\* C7 amended: the first chunk of every split group carries the group's
\* leader (null for a leaderless group) and every later chunk has a null
\* leader: exactly one chunk, the first, has a leader when the group has one,
\* and no chunk has a leader when the group has none.
C7_OnlyFirstChunkKeepsLeader ==
  SplitDone =>
    \A f \in SplitFamilies :
      /\ f.chunks[1].leader = f.group.leader
      /\ \A c \in 2..Len(f.chunks) : f.chunks[c].leader = None

\* A led group and a leaderless group were both split.
C7_Witness ==
  /\ SplitDone
  /\ \E f \in SplitFamilies : f.group.leader # None /\ f.chunks[1].leader # None
  /\ \E f \in SplitFamilies : f.group.leader = None

\* C8: a group of n <= max units comes back as the one unchanged group,
\* without columnIndex or totalColumns (at top level only its subgroups are
\* replaced by their chunks); a larger group comes back as
\* numColumns = ceil(n / max) chunks, chunk i (0-based) holding
\* units[i*unitsPerColumn .. min((i+1)*unitsPerColumn, n)) with
\* unitsPerColumn = ceil(n / numColumns): no chunk is empty and every chunk
\* but possibly the last has unitsPerColumn units.
C8_ChunksAreCeilSlices ==
  SplitDone =>
    \A f \in Families :
      LET n == Len(f.group.units)
          max == maxUnitsPerColumn
      IN IF n <= max
         THEN /\ Len(f.chunks) = 1
              /\ [f.chunks[1] EXCEPT !.subgroups = f.group.subgroups] = f.group
              /\ f.chunks[1].columnIndex = None /\ f.chunks[1].totalColumns = None
         ELSE \E numColumns \in 1..n, unitsPerColumn \in 1..n :
                /\ numColumns * max >= n /\ (numColumns - 1) * max < n
                /\ unitsPerColumn * numColumns >= n
                /\ (unitsPerColumn - 1) * numColumns < n
                /\ Len(f.chunks) = numColumns
                /\ \A i \in 0..(numColumns - 1) :
                     LET last == IF (i + 1) * unitsPerColumn < n
                                 THEN (i + 1) * unitsPerColumn ELSE n
                     IN /\ f.chunks[i + 1].units =
                             SubSeq(f.group.units, i * unitsPerColumn + 1, last)
                        /\ Len(f.chunks[i + 1].units) >= 1
                        /\ i < numColumns - 1 =>
                             Len(f.chunks[i + 1].units) = unitsPerColumn

\* Thirteen units under a limit of 6 came back as chunks of 5, 5 and 3, and
\* some other group came back unchanged.
C8_Witness ==
  /\ SplitDone
  /\ maxUnitsPerColumn = MAX_UNITS_PER_COLUMN
  /\ Len(hierarchy) = 1 /\ Len(hierarchy[1].units) = 13
  /\ [c \in 1..Len(splitGroups) |-> Len(splitGroups[c].units)] = <<5, 5, 3>>

-----------------------------------------------------------------------------
(* Presentation: CommandGroupSection and ArmySection of RosterSheet.tsx and *)
(* FlowRosterSheet.tsx, as functions of the split group list.  A rendered   *)
(* section is a record of what the component emits: its React key, the      *)
(* title text, the size label, the leader banner, the unit rows and the     *)
(* sections of its subgroups.                                               *)

\* The text appended to the title of a continuation chunk.
ContMarker == <<" ", "(", "c", "o", "n", "t", ".", ")">>

RosterVariants == {"flow", "hierarchical"}

\* group.columnIndex && group.columnIndex > 0, the marker on every chunk.
IsContinuationFromFirst(group) ==
  /\ group.columnIndex # None
  /\ group.columnIndex[1] # 0
  /\ group.columnIndex[1] > 0

\* const isContinuation = group.columnIndex && group.columnIndex > 1
IsContinuation(group) ==
  /\ group.columnIndex # None
  /\ group.columnIndex[1] # 0
  /\ group.columnIndex[1] > 1

\* titleText: the displayName, with " (cont.)" appended on a continuation.
TitleText(group) ==
  IF IsContinuation(group) THEN group.displayName \o ContMarker
  ELSE group.displayName

\* {group.size && !isContinuation && <span> ({group.size})</span>}
GroupSizeLabel(group) ==
  IF group.size # "" /\ ~IsContinuation(group) THEN Some(group.size) ELSE None

\* `${group.commandCode}-${group.columnIndex || 0}-${idx}`
GroupKey(group, idx) ==
  [commandCode |-> group.commandCode,
   columnIndex |-> IF group.columnIndex = None THEN 0 ELSE group.columnIndex[1],
   idx |-> idx]

\* `${subgroup.commandCode}-${idx}`
SubgroupKey(subgroup, idx) == [commandCode |-> subgroup.commandCode, idx |-> idx]

RECURSIVE CommandGroupSection(_, _, _)
\* The section rendered for one group: the title, the LeaderHeader when
\* group.leader is truthy, one UnitRow per unit, and one section per subgroup.
CommandGroupSection(group, key, isSubgroup) ==
  [key |-> key,
   isSubgroup |-> isSubgroup,
   titleText |-> TitleText(group),
   groupSize |-> GroupSizeLabel(group),
   leaderHeader |-> IF group.leader # None THEN group.leader ELSE None,
   unitRows |-> group.units,
   subgroups |-> [idx \in 1..Len(group.subgroups) |->
                    CommandGroupSection(group.subgroups[idx],
                                        SubgroupKey(group.subgroups[idx], idx - 1),
                                        TRUE)]]

\* gs.map((group, idx) => <CommandGroupSection group={group} />)
GroupSections(gs) ==
  [p \in 1..Len(gs) |-> CommandGroupSection(gs[p], GroupKey(gs[p], p - 1), FALSE)]

\* The sections of an army in document order: every chunk in list order
\* (flow), or the chunks without subgroups followed by the chunks with
\* subgroups (hierarchical).
ArmySection(gs, variant) ==
  LET nestedGroups == IF variant = "hierarchical"
                      THEN SelectSeq(gs, LAMBDA g : Len(g.subgroups) > 0)
                      ELSE <<>>
      flatGroups == IF variant = "hierarchical"
                    THEN SelectSeq(gs, LAMBDA g : Len(g.subgroups) = 0)
                    ELSE gs
  IN GroupSections(flatGroups) \o GroupSections(nestedGroups)

\* Every section of a rendered list, subgroup sections included.
AllSections(sections) ==
  Flatten([p \in 1..Len(sections) |-> <<sections[p]>> \o sections[p].subgroups])

\* The sections rendered for the chunks of the group of family f.
FamilySections(f, variant) ==
  SelectSeq(AllSections(ArmySection(splitGroups, variant)),
            LAMBDA s : s.key.commandCode = f.group.commandCode)

HasMarker(section) == EndsWith(section.titleText, ContMarker)

HasBanner(section) == section.leaderHeader # None

\* C20: the section of a group carries " (cont.)" after the group's
\* displayName exactly when the group's columnIndex is defined and greater
\* than 1, and has the leader banner exactly when the group's leader is not
\* null; every chunk is rendered once, so a led group split into N chunks has
\* one banner, on its first chunk, and the marker on its other N - 1 chunks,
\* and a group that was not split has no marker.
C20_MarkerOnContinuationsBannerOnFirst ==
  SplitDone =>
    \A variant \in RosterVariants :
      /\ \A p \in 1..Len(AllGroups(splitGroups)) :
           LET g == AllGroups(splitGroups)[p]
               section == CommandGroupSection(g, GroupKey(g, p - 1), FALSE)
               continued == g.columnIndex # None /\ g.columnIndex[1] > 1
           IN /\ HasMarker(section) <=> continued
              /\ section.titleText
                   = (IF continued THEN g.displayName \o ContMarker ELSE g.displayName)
              /\ HasBanner(section) <=> g.leader # None
      /\ \A f \in Families :
           LET sections == FamilySections(f, variant)
               N == Len(f.chunks)
               banners == {c \in 1..Len(sections) : HasBanner(sections[c])}
               markers == {c \in 1..Len(sections) : HasMarker(sections[c])}
           IN /\ Len(sections) = N
              /\ N = 1 => markers = {}
              /\ Cardinality(markers) = N - 1
              /\ f.group.leader # None =>
                   /\ Cardinality(banners) = 1
                   /\ banners \cap markers = {}
                   /\ \A c \in banners :
                        /\ sections[c].leaderHeader = f.group.leader
                        /\ sections[c].unitRows = f.chunks[1].units

\* A led group with a subgroup was split into three or more chunks and
\* rendered in the hierarchical variant, where its continuation chunks come
\* before its first chunk; a group that was not split was rendered as well.
C20_Witness ==
  /\ SplitDone
  /\ \E f \in Families :
       LET sections == FamilySections(f, "hierarchical")
       IN /\ f.group.leader # None
          /\ Len(f.group.subgroups) > 0
          /\ Len(f.chunks) >= 3
          /\ HasMarker(sections[1])
          /\ HasBanner(sections[Len(sections)])
  /\ \E f \in Families :
       /\ Len(f.chunks) = 1
       /\ ~HasMarker(FamilySections(f, "flow")[1])

-----------------------------------------------------------------------------
(* Further properties of buildCommandHierarchy *)

\* divToCorps of the input when the loops of lines 84-114 have ended.
DivToCorpsOf(us) ==
  LET leaders == SelectSeq(us, LAMBDA u : u.type = "Ldr")
      combatUnits == SelectSeq(us, LAMBDA u : u.type # "Ldr")
      sortedLeaders == SortLeaders(leaders)
      corpsLeaders == SelectSeq(sortedLeaders, LAMBDA l : l.size = "Corps")
      divLeaders == SelectSeq(sortedLeaders, LAMBDA l : l.size = "Div")
  IN DivToCorps(corpsLeaders, divLeaders, UnitsByCommand(combatUnits))

\* The Div leaders of the input whose code divToCorps maps to a corps code.
MappedDivLeaders ==
  {d \in LeadersOfSize("Div") : IsMapped(DivToCorpsOf(units), d.command)}

\* The places <<p, j>> of the subgroups of the hierarchy led by the leader d.
SubgroupsLedBy(d) ==
  {q \in (1..Len(hierarchy)) \X (1..MaxLeaders + MaxNestedLeaders) :
     /\ q[2] <= Len(hierarchy[q[1]].subgroups)
     /\ hierarchy[q[1]].subgroups[q[2]].leader = Some(d)}

\* C21: every Div leader whose code divToCorps maps to a corps code leads
\* exactly one subgroup, which is in the top-level group of that corps code,
\* leads no top-level group, and the units of its code are in that subgroup
\* and in no other group.
C21_MappedDivisionIsOneSubgroup ==
  Built =>
    \A d \in MappedDivLeaders :
      LET parent == Get(DivToCorpsOf(units), d.command)
          led == SubgroupsLedBy(d)
      IN /\ Cardinality(led) = 1
         /\ \A q \in led :
              /\ hierarchy[q[1]].commandCode = parent
              /\ hierarchy[q[1]].subgroups[q[2]].units = UnitsCoded(d.command)
         /\ \A p \in 1..Len(hierarchy) :
              /\ hierarchy[p].leader # Some(d)
              /\ \A i \in 1..Len(hierarchy[p].units) :
                   hierarchy[p].units[i].command # d.command
              /\ \A j \in 1..Len(hierarchy[p].subgroups) :
                   <<p, j>> \notin led =>
                     \A i \in 1..Len(hierarchy[p].subgroups[j].units) :
                       hierarchy[p].subgroups[j].units[i].command # d.command

\* The command codes carried by the leaders of the input.
LeaderCodes == {InputLeaders[i].command : i \in 1..Len(InputLeaders)}

\* The Corps leaders of the input with a division mapped to their code.
CorpsWithDivisions ==
  {c \in LeadersOfSize("Corps") :
     \E d \in MappedDivLeaders : Get(DivToCorpsOf(units), d.command) = c.command}

\* The unit codes without a leader that contain "-" + cmd.
LeaderlessCodesUnder(cmd) ==
  {code \in UnitCodes \ LeaderCodes : Includes(code, Hyphen \o cmd)}

\* The units of the top-level group g and of its subgroups.
UnitsWithin(g) ==
  g.units \o Flatten([j \in 1..Len(g.subgroups) |-> g.subgroups[j].units])

\* C22: the group emitted for a Corps leader with a mapped division has as
\* direct units exactly the combat units of the corps code, in input order;
\* the units of a leaderless code textually under the corps code are neither
\* in the corps group nor in its subgroups, and form a leaderless top-level
\* group of their own.
C22_CorpsKeepsOnlyOwnUnits ==
  Built =>
    \A c \in CorpsWithDivisions :
      \A p \in 1..Len(hierarchy) :
        hierarchy[p].leader = Some(c) =>
          /\ hierarchy[p].units = UnitsCoded(c.command)
          /\ \A code \in LeaderlessCodesUnder(c.command) :
               /\ \A i \in 1..Len(UnitsWithin(hierarchy[p])) :
                    UnitsWithin(hierarchy[p])[i].command # code
               /\ \E q \in 1..Len(hierarchy) :
                    /\ hierarchy[q].leader = None
                    /\ hierarchy[q].commandCode = code
                    /\ hierarchy[q].units = UnitsCoded(code)

\* The code under which a combat unit is filed: "-" when it has no command.
FiledUnder(u) == IF u.command = <<>> THEN Hyphen ELSE u.command

\* The unit codes of the input in the order of their first unit.
UnitCodesInOrder ==
  LET combat == SelectSeq(units, LAMBDA u : u.type # "Ldr")
      firsts == SelectSeq(combat,
                          LAMBDA u : ~\E k \in 1..Len(combat) :
                                        /\ combat[k].id < u.id
                                        /\ FiledUnder(combat[k]) = FiledUnder(u))
  IN [k \in 1..Len(firsts) |-> FiledUnder(firsts[k])]

\* The leader l is handled by the standard case when its turn comes: it is
\* no Army or District leader, has a code, is no Corps leader with a division
\* mapped to its code and no Div leader mapped to a corps.
StandardCase(l) ==
  /\ ~IsNoneCode(l.command)
  /\ l.size \notin {"Army", "District"}
  /\ ~(l.size = "Corps" /\ \E k \in 1..Len(DivToCorpsOf(units)) :
                             DivToCorpsOf(units)[k].v = l.command)
  /\ ~(l.size = "Div" /\ IsMapped(DivToCorpsOf(units), l.command))

\* The units of the other codes that contain "-" + c and have no leader of
\* any size, code after code.
InheritedUnits(c) ==
  LET inherited == SelectSeq(UnitCodesInOrder,
                     LAMBDA o : o # c /\ Includes(o, Hyphen \o c) /\ o \notin LeaderCodes)
  IN Flatten([k \in 1..Len(inherited) |-> UnitsCoded(inherited[k])])

\* C23: the group emitted for a leader handled by the standard case holds the
\* units of the leader's code c in input order, then the units of every
\* other code that contains "-" + c and has no leader of any size; no unit of
\* a code that has a leader of its own is merged; the group is named
\* c + " — " + the leader's name, has the leader's size and no subgroups.
C23_StandardGroupUnits ==
  Built =>
    \A p \in 1..Len(hierarchy) :
      (hierarchy[p].leader # None /\ StandardCase(hierarchy[p].leader[1])) =>
        LET g == hierarchy[p]
            l == g.leader[1]
            c == l.command
        IN /\ g.commandCode = c
           /\ g.units = UnitsCoded(c) \o InheritedUnits(c)
           /\ \A i \in 1..Len(g.units) :
                FiledUnder(g.units[i]) # c => FiledUnder(g.units[i]) \notin LeaderCodes
           /\ g.displayName = c \o <<" ">> \o EmDash \o <<" ">> \o l.name
           /\ g.size = l.size
           /\ g.subgroups = <<>>

\* The Brig leader of "II" got the unit of "II" and not the unit of "B-II",
\* a code that an Army leader carries.
C23_Witness ==
  /\ Built
  /\ \E p \in 1..Len(hierarchy) :
       /\ hierarchy[p].leader # None
       /\ StandardCase(hierarchy[p].leader[1])
       /\ hierarchy[p].commandCode = CodeII
       /\ Len(hierarchy[p].units) = 1
  /\ \E a \in LeadersOfSize("Army") : a.command = CodeBII
  /\ CodeBII \in UnitCodes

-----------------------------------------------------------------------------
(* Further properties of splitLargeGroups *)

\* C24: the list returned by splitLargeGroups holds the chunks of the first
\* input group, then those of the second, and so on; the chunks of a group
\* split into N columns carry columnIndex 1, 2, ..., N in that order and
\* totalColumns N; every chunk keeps the commandCode, displayName and size of
\* its group; a group that is not split has neither columnIndex nor
\* totalColumns.
C24_ChunksInOrderAndNumbered ==
  SplitDone =>
    /\ splitGroups = Flatten([p \in 1..Len(hierarchy) |-> ChunksOf(p)])
    /\ \A p \in 1..Len(hierarchy) : Len(ChunksOf(p)) >= 1
    /\ \A f \in Families :
         LET N == Len(f.chunks)
         IN /\ \A c \in 1..N :
                 /\ f.chunks[c].commandCode = f.group.commandCode
                 /\ f.chunks[c].displayName = f.group.displayName
                 /\ f.chunks[c].size = f.group.size
            /\ Len(f.group.units) > maxUnitsPerColumn =>
                 /\ N >= 2
                 /\ \A c \in 1..N :
                      /\ f.chunks[c].columnIndex = Some(c)
                      /\ f.chunks[c].totalColumns = Some(N)
            /\ Len(f.group.units) <= maxUnitsPerColumn =>
                 /\ N = 1
                 /\ f.chunks[1].columnIndex = None
                 /\ f.chunks[1].totalColumns = None

\* A group split into three or more chunks is followed in the list by a group
\* that was not split, and stands before it in the input.
C24_Witness ==
  /\ SplitDone
  /\ Len(hierarchy) = 2
  /\ Len(ChunksOf(1)) >= 3
  /\ Len(ChunksOf(2)) = 1
  /\ splitGroups[Len(splitGroups)].columnIndex = None
  /\ splitGroups[3].columnIndex = Some(3)

-----------------------------------------------------------------------------
(* Further properties of the presentation *)

\* C25: in both variants of the army section of RosterSheet the sections of
\* the chunks of one split group stand in ascending columnIndex order, the
\* first chunk before every continuation chunk.
C25_ChunksRenderedInColumnOrder ==
  SplitDone =>
    \A variant \in RosterVariants :
      \A p \in 1..Len(hierarchy) :
        LET sections ==
              SelectSeq(ArmySection(splitGroups, variant),
                        LAMBDA s : s.key.commandCode = hierarchy[p].commandCode)
        IN Len(ChunksOf(p)) >= 2 =>
             \A k \in 1..Len(sections) : sections[k].key.columnIndex = k

-----------------------------------------------------------------------------
(* The three functions and their arguments: buildCommandHierarchy on a unit *)
(* list followed by splitLargeGroups, and sortCommandGroups on a group list *)
(* of its own followed by splitLargeGroups.                                 *)

MaxFrameLeaders == 1

MaxFrameCombatUnits == 3

FrameLeaderPool ==
  [name : {<<"J">>}, size : {"Brig"}, command : {CodeI, CodeII}, type : {"Ldr"}]

FrameCombatPool ==
  [name : {<<"U">>}, size : {"Brig"}, command : {CodeI, CodeII}, type : CombatTypes]

InitFrame ==
  \/ /\ IsUnitList(units, FrameLeaderPool, FrameCombatPool,
                   MaxFrameLeaders, MaxFrameCombatUnits)
     /\ groups = <<>>
     /\ hierarchy = <<>>
     /\ maxUnitsPerColumn = 0
     /\ call = <<>>
     /\ codes = <<>>
     /\ subordinate = <<>>
     /\ footnotes = <<>>
     /\ fatigue = <<>>
     /\ splitGroups = <<>>
     /\ pc = "units"
  \/ InitSort

NextFrame == Build \/ SortGroups \/ Split

SpecFrame == InitFrame /\ [][NextFrame]_vars

-----------------------------------------------------------------------------
(* getStartingFatigue (lines 16-28), called for a unit row and a leader     *)
(* banner (RosterSheet.tsx lines 41 and 114).  Footnote texts are sequences *)
(* of one-character strings.                                                *)

UpperCase ==
  <<"A", "B", "C", "D", "E", "F", "G", "H", "I", "J", "K", "L", "M", "N",
    "O", "P", "Q", "R", "S", "T", "U", "V", "W", "X", "Y", "Z">>

LowerCase ==
  <<"a", "b", "c", "d", "e", "f", "g", "h", "i", "j", "k", "l", "m", "n",
    "o", "p", "q", "r", "s", "t", "u", "v", "w", "x", "y", "z">>

\* The lower-case form of an ASCII letter; any other character is itself.
ToLowerCase(c) ==
  IF \E i \in 1..Len(UpperCase) : UpperCase[i] = c
  THEN LowerCase[CHOOSE i \in 1..Len(UpperCase) : UpperCase[i] = c]
  ELSE c

\* \d
Digits == {"0", "1", "2", "3", "4", "5", "6", "7", "8", "9"}

\* The literal part of /Fatigue Level (\d)/i.
FatigueLevel ==
  <<"F", "a", "t", "i", "g", "u", "e", " ", "L", "e", "v", "e", "l", " ">>

\* The pattern matches at the 0-based offset off of the text: the literal,
\* letters compared without case, and one digit after it.
MatchesAt(text, off) ==
  /\ off + Len(FatigueLevel) + 1 <= Len(text)
  /\ \A i \in 1..Len(FatigueLevel) :
       ToLowerCase(text[off + i]) = ToLowerCase(FatigueLevel[i])
  /\ text[off + Len(FatigueLevel) + 1] \in Digits

\* FatigueMatch comparing the letters with their case.
FatigueMatchCaseSensitive(text) ==
  LET offs == {off \in 0..Len(text) :
                 /\ off + Len(FatigueLevel) + 1 <= Len(text)
                 /\ \A i \in 1..Len(FatigueLevel) : text[off + i] = FatigueLevel[i]
                 /\ text[off + Len(FatigueLevel) + 1] \in Digits}
      first == CHOOSE off \in offs : \A o \in offs : off <= o
  IN IF offs = {} THEN None ELSE Some(text[first + Len(FatigueLevel) + 1])

\* footnoteText.match(/Fatigue Level (\d)/i): null, or the captured digit of
\* the leftmost match.
FatigueMatch(text) ==
  LET offs == {off \in 0..Len(text) : MatchesAt(text, off)}
      first == CHOOSE off \in offs : \A o \in offs : off <= o
  IN IF offs = {} THEN None ELSE Some(text[first + Len(FatigueLevel) + 1])

RECURSIVE ScanNotes(_, _)
\* The loop of lines 17-26 over the notes that are left.
ScanNotes(notes, table) ==
  IF notes = <<>> THEN None
  ELSE LET note == Head(notes)
           footnoteText == GetOrEmpty(table, note)
           fatigueMatch == FatigueMatch(footnoteText)
       IN IF HasKey(table, note) /\ footnoteText # <<>> /\ fatigueMatch # None
          THEN Some(<<"F">> \o fatigueMatch)
          ELSE ScanNotes(Tail(notes), table)

\* getStartingFatigue(unit, footnotes): undefined is None.
getStartingFatigue(unit, table) == ScanNotes(unit.notes, table)

\* Largest number of notes of the unit.
MaxNotes == 2

\* The note symbols of units; "b" has no footnote.
NoteSymbols == {"*", "a", "b"}

TextFatigue2 ==
  <<"S", "t", "a", "r", "t", "s", " ", "w", "i", "t", "h", " ", "F", "a",
    "t", "i", "g", "u", "e", " ", "L", "e", "v", "e", "l", " ", "2">>

TextCapitals3 ==
  <<"F", "A", "T", "I", "G", "U", "E", " ", "L", "E", "V", "E", "L", " ",
    "3">>

TextTwoLevels ==
  <<"f", "a", "t", "i", "g", "u", "e", " ", "l", "e", "v", "e", "l", " ",
    "1", ",", " ", "n", "o", "t", " ", "F", "a", "t", "i", "g", "u", "e",
    " ", "L", "e", "v", "e", "l", " ", "4">>

TextNoDigit ==
  <<"F", "a", "t", "i", "g", "u", "e", " ", "L", "e", "v", "e", "l", " ",
    "X">>

TextTwoSpaces ==
  <<"F", "a", "t", "i", "g", "u", "e", " ", " ", "L", "e", "v", "e", "l",
    " ", "2">>

TextTwoDigits ==
  <<"F", "a", "t", "i", "g", "u", "e", " ", "L", "e", "v", "e", "l", " ",
    "1", "2">>

FootnoteTexts ==
  {TextFatigue2, TextCapitals3, TextTwoLevels, TextNoDigit, TextTwoSpaces,
   TextTwoDigits, <<>>}

\* The footnote table with the given texts, if any, for "*" and for "a".
FootnoteTable(star, a) ==
  (IF star = None THEN <<>> ELSE <<[k |-> "*", v |-> star[1]]>>)
  \o (IF a = None THEN <<>> ELSE <<[k |-> "a", v |-> a[1]]>>)

\* A unit with notes (types.ts).
NotedUnit(notes) ==
  [id |-> 1, name |-> <<"U">>, size |-> "Brig", command |-> CodeI, type |-> "Inf",
   notes |-> notes]

InitFatigue ==
  /\ \E notes \in SeqsUpTo(NoteSymbols, MaxNotes) : units = <<NotedUnit(notes)>>
  /\ \E star, a \in {None} \cup {Some(x) : x \in FootnoteTexts} :
       footnotes = FootnoteTable(star, a)
  /\ fatigue = None
  /\ groups = <<>>
  /\ hierarchy = <<>>
  /\ maxUnitsPerColumn = 0
  /\ call = <<>>
  /\ codes = <<>>
  /\ subordinate = <<>>
  /\ splitGroups = <<>>
  /\ pc = "unit"

\* const fatigue = getStartingFatigue(unit, footnotes)
GetStartingFatigue ==
  /\ pc = "unit"
  /\ fatigue' = getStartingFatigue(units[1], footnotes)
  /\ pc' = "fatigue"
  /\ UNCHANGED <<units, groups, hierarchy, maxUnitsPerColumn, splitGroups,
                 call, footnotes, codes, subordinate>>

NextFatigue == GetStartingFatigue

SpecFatigue == InitFatigue /\ [][NextFatigue]_vars

\* "Fatigue Level " in capital and in small letters.
PatternInCapitals ==
  <<"F", "A", "T", "I", "G", "U", "E", " ", "L", "E", "V", "E", "L", " ">>

PatternInSmall ==
  <<"f", "a", "t", "i", "g", "u", "e", " ", "l", "e", "v", "e", "l", " ">>

\* The text has "Fatigue Level ", each letter in either case, followed by a
\* digit, at the 0-based offset off.
FatigueLevelAt(text, off) ==
  /\ off + 15 <= Len(text)
  /\ \A i \in 1..14 : text[off + i] \in {PatternInCapitals[i], PatternInSmall[i]}
  /\ text[off + 15] \in Digits

\* The notes of the unit, by position, whose footnote text holds the pattern.
MatchingNotes ==
  {i \in 1..Len(units[1].notes) :
     /\ HasKey(footnotes, units[1].notes[i])
     /\ \E off \in 0..Len(Get(footnotes, units[1].notes[i])) :
          FatigueLevelAt(Get(footnotes, units[1].notes[i]), off)}

\* C27: getStartingFatigue returns "F" and the digit that follows the first
\* "Fatigue Level " (in any case) of the footnote text of the first note, in
\* the order of unit.notes, whose text has the pattern; it returns undefined
\* when no note has such a text: when the unit has no notes, when its notes
\* have no footnote entry, and when no text of its notes matches.
C27_FatigueOfFirstMatchingNote ==
  pc = "fatigue" =>
    IF MatchingNotes = {} THEN fatigue = None
    ELSE LET n == CHOOSE i \in MatchingNotes : \A k \in MatchingNotes : i <= k
             text == Get(footnotes, units[1].notes[n])
             off == CHOOSE o \in 0..Len(text) :
                      /\ FatigueLevelAt(text, o)
                      /\ \A q \in 0..(o - 1) : ~FatigueLevelAt(text, q)
         IN fatigue = Some(<<"F", text[off + 15]>>)

\* The first note has no footnote and the second has a text that holds the
\* pattern twice, first in small letters: the first digit is returned.
C27_Witness ==
  /\ pc = "fatigue"
  /\ units[1].notes = <<"b", "*">>
  /\ HasKey(footnotes, "*")
  /\ Get(footnotes, "*") = TextTwoLevels
  /\ fatigue = Some(<<"F", "1">>)

-----------------------------------------------------------------------------
(* The depth of the forest *)

\* Only the groups of gs led by a Corps leader have subgroups, and every
\* subgroup has no subgroups of its own and names its top-level group as
\* parent.
TwoLevels(gs) ==
  \A p \in 1..Len(gs) :
    /\ gs[p].subgroups # <<>> =>
         gs[p].leader # None /\ gs[p].leader[1].size = "Corps"
    /\ \A j \in 1..Len(gs[p].subgroups) :
         /\ gs[p].subgroups[j].subgroups = <<>>
         /\ gs[p].subgroups[j].parentCommand = Some(gs[p].commandCode)

\* Every subgroup of gs has a leader.
SubgroupsLed(gs) ==
  \A p \in 1..Len(gs) : \A j \in 1..Len(gs[p].subgroups) :
    gs[p].subgroups[j].leader # None

\* C28 as claimed: the forest returned by buildCommandHierarchy has two
\* levels at most, with every subgroup led, and so has the list returned by
\* splitLargeGroups.
C28_TwoLevelsSubgroupsLed ==
  /\ Built => TwoLevels(hierarchy) /\ SubgroupsLed(hierarchy)
  /\ SplitDone => TwoLevels(splitGroups) /\ SubgroupsLed(splitGroups)

\* C28 amended: the forest returned by buildCommandHierarchy has two levels
\* at most, with every subgroup led; the list returned by splitLargeGroups
\* has two levels at most, and its subgroups are led except the continuation
\* chunks (columnIndex greater than 1) of a split subgroup, which have a null
\* leader.
C28_TwoLevelsFirstChunksLed ==
  /\ Built => TwoLevels(hierarchy) /\ SubgroupsLed(hierarchy)
  /\ SplitDone =>
       /\ TwoLevels(splitGroups)
       /\ \A p \in 1..Len(splitGroups) : \A j \in 1..Len(splitGroups[p].subgroups) :
            LET sub == splitGroups[p].subgroups[j]
            IN sub.leader = None <=> (sub.columnIndex # None /\ sub.columnIndex[1] > 1)

\* A division of two units under a corps was split: its second chunk is a
\* subgroup without a leader.
C28_Witness ==
  /\ SplitDone
  /\ \E p \in 1..Len(hierarchy) : \E j \in 1..Len(hierarchy[p].subgroups) :
       Len(hierarchy[p].subgroups[j].units) = 2
  /\ \E p \in 1..Len(splitGroups) : \E j \in 1..Len(splitGroups[p].subgroups) :
       /\ splitGroups[p].subgroups[j].leader = None
       /\ splitGroups[p].subgroups[j].columnIndex = Some(2)

-----------------------------------------------------------------------------
(* isSubordinateCommand as a relation on command codes *)

\* Longest command code given to isSubordinateCommand.
MaxCodeLen == 4

\* The characters of the codes: the separator and one letter.
CodeChars == {"-", "I"}

\* Every code of at most MaxCodeLen characters, the empty code included.
CommandCodes == UNION {[1..n -> CodeChars] : n \in 0..MaxCodeLen}

\* Three codes, before any of them is compared.
InitCommand ==
  /\ \E a \in CommandCodes, b \in CommandCodes, c \in CommandCodes :
       codes = <<a, b, c>>
  /\ subordinate = <<>>
  /\ units = <<>> /\ groups = <<>> /\ hierarchy = <<>>
  /\ maxUnitsPerColumn = 0 /\ splitGroups = <<>>
  /\ call = <<>> /\ footnotes = <<>> /\ fatigue = <<>>
  /\ pc = "codes"

\* isSubordinateCommand(codes[i], codes[j]) for every child i and parent j.
IsSubordinateCommand ==
  /\ pc = "codes"
  /\ subordinate' = [i \in 1..Len(codes) |-> [j \in 1..Len(codes) |->
                       isSubordinateCommand(codes[i], codes[j])]]
  /\ pc' = "subordinate"
  /\ UNCHANGED <<units, groups, hierarchy, maxUnitsPerColumn, splitGroups,
                 call, footnotes, fatigue, codes>>

NextCommand == IsSubordinateCommand

SpecCommand == InitCommand /\ [][NextCommand]_vars

\* child = before + "-" + parent + after for some strings before and after.
ContainsHyphenThen(child, parent) ==
  \E from \in 1..Len(child) :
    /\ child[from] = "-"
    /\ from + Len(parent) <= Len(child)
    /\ SubSeq(child, from + 1, from + Len(parent)) = parent

\* C29: isSubordinateCommand is a strict partial order on command codes: no
\* code is subordinate to itself, no two codes are subordinate to each other,
\* and a code subordinate to a code that is subordinate to a third is
\* subordinate to the third; its result is true exactly when the child code
\* contains "-" followed by the parent code as a substring.
C29_StrictPartialOrder ==
  pc = "subordinate" =>
    /\ \A i \in 1..Len(codes) : ~subordinate[i][i]
    /\ \A i, j \in 1..Len(codes) :
         /\ codes[i] = codes[j] => ~subordinate[i][j]
         /\ ~(subordinate[i][j] /\ subordinate[j][i])
         /\ subordinate[i][j] <=> ContainsHyphenThen(codes[i], codes[j])
    /\ \A i, j, k \in 1..Len(codes) :
         subordinate[i][j] /\ subordinate[j][k] => subordinate[i][k]

\* A chain of three codes in which the first contains "-" + the second
\* without ending with it.
C29_Witness ==
  /\ pc = "subordinate"
  /\ subordinate[1][2] /\ subordinate[2][3] /\ subordinate[1][3]
  /\ ~EndsWith(codes[1], Hyphen \o codes[2])
  /\ codes[3] # <<>>

-----------------------------------------------------------------------------
(* splitLargeGroups applied to its own result *)

\* splitLargeGroups(splitGroups, max) with the limit of the first call: the
\* result of the first call is the argument of the second.
SplitAgain ==
  /\ pc = "splitGroups"
  /\ hierarchy' = GroupsAfterSplit(splitGroups, maxUnitsPerColumn)
  /\ splitGroups' = splitLargeGroups(splitGroups, maxUnitsPerColumn)
  /\ pc' = "splitAgain"
  /\ UNCHANGED <<units, groups, maxUnitsPerColumn, call, footnotes, fatigue,
                 codes, subordinate>>

NextResplit == Split \/ SplitAgain

SpecResplit == InitSplit /\ [][NextResplit]_vars

\* Two groups with the same fields, subgroup by subgroup.
SameGroup(a, b) ==
  /\ a.units = b.units
  /\ a.leader = b.leader
  /\ a.columnIndex = b.columnIndex
  /\ a.totalColumns = b.totalColumns
  /\ Len(a.subgroups) = Len(b.subgroups)
  /\ \A j \in 1..Len(a.subgroups) :
       /\ a.subgroups[j].units = b.subgroups[j].units
       /\ a.subgroups[j].leader = b.subgroups[j].leader
       /\ a.subgroups[j].columnIndex = b.subgroups[j].columnIndex
       /\ a.subgroups[j].totalColumns = b.subgroups[j].totalColumns
       /\ a.subgroups[j].subgroups = b.subgroups[j].subgroups

\* C30: splitLargeGroups is idempotent for a limit of at least one: applied
\* to its own result with the same limit it returns the same groups in the
\* same order, with the same units, leader, subgroups, columnIndex and
\* totalColumns; a chunk is neither split nor renumbered again.
C30_SplitIsIdempotent ==
  (pc = "splitAgain" /\ maxUnitsPerColumn >= 1) =>
    /\ Len(splitGroups) = Len(hierarchy)
    /\ \A p \in 1..Len(splitGroups) : SameGroup(splitGroups[p], hierarchy[p])
    /\ splitGroups = hierarchy

\* The second call was given a list in which a group and a subgroup had
\* been split: a second chunk at the top and a second chunk among the
\* subgroups of a first chunk.
C30_Witness ==
  /\ pc = "splitAgain"
  /\ maxUnitsPerColumn >= 1
  /\ \E p \in 1..Len(hierarchy) :
       /\ hierarchy[p].columnIndex = Some(2)
       /\ hierarchy[p].leader = None
  /\ \E p \in 1..Len(hierarchy) :
       /\ hierarchy[p].columnIndex = Some(1)
       /\ \E j \in 1..Len(hierarchy[p].subgroups) :
            hierarchy[p].subgroups[j].columnIndex = Some(2)
  /\ \E p \in 1..Len(hierarchy) : hierarchy[p].columnIndex = None

====
